---- MODULE Spec2Model ----
(***************************************************************************)
(* Pitch engine of music_hub (utils/audio): autoCorrelate, the             *)
(* autocorrelation pitch estimator, and getNoteInfo, the frequency to      *)
(* note mapper.  One call is one behaviour: Init draws the arguments, the  *)
(* actions execute the body of the called function statement by statement. *)
(*                                                                         *)
(* Numbers.  A sample byte b stands for the real (b - 128) / 128.  Every   *)
(* product of two centred samples is a multiple of 1 / (128 * 128), and    *)
(* the sums the code forms stay far below 2^53, so the IEEE arithmetic of  *)
(* the autocorrelation is exact: rms and c are kept as integers in units   *)
(* of 1 / (128 * 128).  A JavaScript number that leaves a function is a    *)
(* record [k, n, d]: the rational n / d (d > 0), or an infinity, NaN or    *)
(* undefined.                                                              *)
(***************************************************************************)
EXTENDS Integers, Sequences, FiniteSets, TLC

\* ------------------------------------------------------------------ bounds
\* longest buffer handed to autoCorrelate
MaxLen == 4
\* fraction bits of the fixed-point model of Math.log2
FracBits == 10
\* highest whole-Hz frequency of the chromatic sweep handed to getNoteInfo
MaxHz == 60

\* ------------------------------------------------------- JavaScript numbers
Num(a, b) == [k |-> "num", n |-> a, d |-> b]
PosInf == [k |-> "inf", n |-> 1, d |-> 0]
NegInf == [k |-> "-inf", n |-> -1, d |-> 0]
NaN == [k |-> "nan", n |-> 0, d |-> 0]
Undefined == [k |-> "undef", n |-> 0, d |-> 0]

Abs(v) == IF v < 0 THEN -v ELSE v

\* a / b of two integers, as JavaScript divides
JSDiv(a, b) ==
  IF b = 0 THEN (IF a > 0 THEN PosInf ELSE IF a < 0 THEN NegInf ELSE NaN)
  ELSE IF b < 0 THEN Num(-a, -b) ELSE Num(a, b)

\* x < y for a number record x and an integer y
JSLess(x, y) ==
  \/ x.k = "-inf"
  \/ x.k = "num" /\ x.n < y * x.d

\* !x
Falsy(x) == x.k \in {"nan", "undef"} \/ (x.k = "num" /\ x.n = 0)

\* ------------------------------------------------------------ autoCorrelate
\* the centre of the unsigned 8-bit samples, and the divisor of (b - 128) / 128
Center == 128
FullScale == 128
Unit == FullScale * FullScale

\* the value autoCorrelate returns below the gate
NoPitch == Num(-1, 1)

\* buf[i], 0-based
At(s, i) == s[i + 1]
Centered(b) == b - Center

\* the terms lo .. hi - 1 of the loop of lines 34-37; the terms are exact and
\* their sum does not depend on the order, so the range is summed by halves to
\* keep the nesting shallow on buffers of a few thousand samples
RECURSIVE SumSqBetween(_, _, _)
SumSqBetween(s, lo, hi) ==
  IF lo >= hi THEN 0
  ELSE IF hi = lo + 1 THEN Centered(At(s, lo)) * Centered(At(s, lo))
  ELSE LET mid == (lo + hi) \div 2
       IN SumSqBetween(s, lo, mid) + SumSqBetween(s, mid, hi)

\* the loop of lines 34-37: rms = sum of val * val, in units of 1 / Unit
SumSq(s, i) == SumSqBetween(s, i, Len(s))

\* s * 10^k < t for 1 <= s, without leaving 32 bits
RECURSIVE ScaledLess(_, _, _)
ScaledLess(s, k, t) ==
  IF k = 0 THEN s < t
  ELSE IF s >= t THEN FALSE
  ELSE ScaledLess(10 * s, k - 1, t)

\* s < t * 10^k for 1 <= t, without leaving 32 bits
RECURSIVE LessScaled(_, _, _)
LessScaled(s, t, k) ==
  IF k = 0 THEN s < t
  ELSE IF s < t THEN TRUE
  ELSE LessScaled(s, 10 * t, k - 1)

\* DbBelowGate with log10(0) taken as NaN instead of -Infinity
DbBelowGateNoSilence(sum, len, g) ==
  IF len = 0 \/ sum = 0 THEN FALSE
  ELSE IF g <= 100 THEN ScaledLess(sum, (100 - g) \div 10, Unit * len)
  ELSE LessScaled(sum, Unit * len, (g - 100) \div 10)

\* db < gate, where db = 20 * log10(sqrt(rms / buf.length)) + 100 and gate is
\* a multiple of 10:  0 / 0 is NaN and compares false, log10(0) is -Infinity,
\* and otherwise db < g  iff  sum / (Unit * len) < 10^((g - 100) / 10).
DbBelowGate(sum, len, g) ==
  IF len = 0 THEN FALSE
  ELSE IF sum = 0 THEN TRUE
  ELSE IF g <= 100 THEN ScaledLess(sum, (100 - g) \div 10, Unit * len)
  ELSE LessScaled(sum, Unit * len, (g - 100) \div 10)

\* Math.abs((b - 128) / 128) < 0.2
BelowThreshold(b) == 10 * Abs(Centered(b)) < 2 * FullScale

\* ScanFront over the whole buffer: i < buf.length
RECURSIVE ScanFrontWhole(_, _, _)
ScanFrontWhole(s, i, r) ==
  IF i >= Len(s) THEN r
  ELSE IF BelowThreshold(At(s, i)) THEN i
  ELSE ScanFrontWhole(s, i + 1, r)

RECURSIVE ScanFrontNoBreak(_, _, _)
ScanFrontNoBreak(s, i, r) ==
  IF 2 * i >= Len(s) THEN r
  ELSE IF BelowThreshold(At(s, i)) THEN ScanFrontNoBreak(s, i + 1, i)
  ELSE ScanFrontNoBreak(s, i + 1, r)

\* line 44: for (i = 0; i < buf.length / 2; i++) if (...) { r1 = i; break; }
RECURSIVE ScanFront(_, _, _)
ScanFront(s, i, r) ==
  IF 2 * i >= Len(s) THEN r
  ELSE IF BelowThreshold(At(s, i)) THEN i
  ELSE ScanFront(s, i + 1, r)

\* line 45: for (i = 1; i < buf.length / 2; i++) if (...) { r2 = buf.length - i; break; }
RECURSIVE ScanBack(_, _, _)
ScanBack(s, i, r) ==
  IF 2 * i >= Len(s) THEN r
  ELSE IF BelowThreshold(At(s, Len(s) - i)) THEN Len(s) - i
  ELSE ScanBack(s, i + 1, r)

\* buf.slice(a, b): a negative index counts from the end, both are clamped
SliceIndex(s, a) ==
  IF a < 0 THEN (IF Len(s) + a < 0 THEN 0 ELSE Len(s) + a)
  ELSE IF a > Len(s) THEN Len(s) ELSE a

Slice(s, a, b) ==
  LET from == SliceIndex(s, a)
      to == SliceIndex(s, b)
  IN IF to <= from THEN << >> ELSE SubSeq(s, from + 1, to)

\* the inner loop of lines 51-53 for one lag: sum of b2[j] * b2[j + lag]
RECURSIVE LagSumBetween(_, _, _, _)
LagSumBetween(s, lag, lo, hi) ==
  IF lo >= hi THEN 0
  ELSE IF hi = lo + 1 THEN Centered(At(s, lo)) * Centered(At(s, lo + lag))
  ELSE LET mid == (lo + hi) \div 2
       IN LagSumBetween(s, lag, lo, mid) + LagSumBetween(s, lag, mid, hi)

LagSum(s, lag, j) == LagSumBetween(s, lag, j, Len(s) - lag)

\* lines 61-64: a later value replaces the maximum found so far only when it
\* is greater
Later(sofar, next) == IF next.mx > sofar.mx THEN next ELSE sofar

\* what the passes lo .. hi - 1 of the loop of lines 60-65 find, lo < hi: the
\* lower half of the passes, then the upper half
RECURSIVE PeakBetween(_, _, _)
PeakBetween(arr, lo, hi) ==
  IF hi = lo + 1 THEN [mx |-> arr[lo], mp |-> lo]
  ELSE LET mid == (lo + hi) \div 2
       IN Later(PeakBetween(arr, lo, mid), PeakBetween(arr, mid, hi))

\* the passes lo .. hi - 1 of the loop of lines 60-65, entered with sofar
PeakFrom(arr, lo, hi, sofar) ==
  IF lo < hi THEN Later(sofar, PeakBetween(arr, lo, hi)) ELSE sofar

\* ArrGreater with an entry past the end of the array read as below every
\* number
ArrGreaterPastEnd(arr, a, b) ==
  /\ a \in DOMAIN arr
  /\ (b \notin DOMAIN arr \/ arr[a] > arr[b])

\* c[a] > c[b]: an index outside the array reads undefined, and every
\* comparison with undefined is false
ArrGreater(arr, a, b) ==
  /\ a \in DOMAIN arr
  /\ b \in DOMAIN arr
  /\ arr[a] > arr[b]

\* -------------------------------------------------------------- getNoteInfo
noteNames == << "C", "C#", "D", "D#", "E", "F", "F#", "G", "G#", "A", "A#", "B" >>
solfegeNames == << "Do", "Di", "Re", "Ri", "Mi", "Fa", "Fi", "Sol", "Si", "La", "Li", "Ti" >>

\* the reference pitch A4 in Hz, its MIDI number, and the audibility floor
A4Hz == 440
A4Midi == 69
MinHz == 20

Sentinel == [note |-> "--", solfege |-> "--", cents |-> Num(0, 1)]

RECURSIVE Pow2(_)
Pow2(k) == IF k = 0 THEN 1 ELSE 2 * Pow2(k - 1)

\* Math.log2 in fixed point.  The double result of Math.log2 is a binary
\* fraction; the model keeps FracBits fraction bits of it, computed by the
\* shift-and-square algorithm on a mantissa of MantBits fraction bits.
MantBits == 14
One == Pow2(FracBits)

\* floor(a * 2^k / b) for 0 <= a < 2 * b
RECURSIVE FixDiv(_, _, _)
FixDiv(a, b, k) ==
  IF k = 0 THEN a \div b
  ELSE (a \div b) * Pow2(k) + FixDiv(2 * (a % b), b, k - 1)

\* the e with 2^e <= a / b < 2^(e + 1), for a, b > 0
RECURSIVE Exponent(_, _)
Exponent(a, b) ==
  IF a < b THEN Exponent(2 * a, b) - 1
  ELSE IF a >= 2 * b THEN Exponent(a, 2 * b) + 1
  ELSE 0

\* the fraction bits of log2 of the mantissa m / 2^MantBits in [1, 2)
RECURSIVE FracLog2(_, _, _)
FracLog2(m, bits, acc) ==
  IF bits = 0 THEN acc
  ELSE LET sq == (m * m) \div Pow2(MantBits)
       IN IF sq >= 2 * Pow2(MantBits)
          THEN FracLog2(sq \div 2, bits - 1, 2 * acc + 1)
          ELSE FracLog2(sq, bits - 1, 2 * acc)

\* Math.log2(a / b) in units of 1 / One, for a, b > 0
Log2(a, b) ==
  LET e == Exponent(a, b)
      m == IF e >= 0 THEN FixDiv(a, b * Pow2(e), MantBits)
                     ELSE FixDiv(a * Pow2(-e), b, MantBits)
  IN e * One + FracLog2(m, FracBits, 0)

\* Round with halves rounded down: ceil(x - 0.5)
RoundHalfDown(x) == -((One - 2 * x) \div (2 * One))

\* Math.round(x) of x given in units of 1 / One: floor(x + 0.5)
Round(x) == (2 * x + One) \div (2 * One)

\* a % b as JavaScript computes it: the sign follows the dividend
JSRem(a, b) == IF a >= 0 THEN a % b ELSE -((-a) % b)

\* IsNoSignal with freq <= 20 in place of freq < 20
IsNoSignalInclusive(f) ==
  Falsy(f) \/ JSLess(f, MinHz) \/ (f.k = "num" /\ f.n = MinHz * f.d)

\* line 19: !freq || freq < 20
IsNoSignal(f) == Falsy(f) \/ JSLess(f, MinHz)

\* Semitone with the MIDI number of A4 left out: n = 12 * Math.log2(freq / 440)
SemitoneNoOffset(f) ==
  IF f.k = "inf" THEN PosInf
  ELSE Num(12 * Log2(f.n, A4Hz * f.d), One)

\* line 20: n = 12 * Math.log2(freq / 440) + 69, a multiple of 1 / One;
\* Infinity stays Infinity
Semitone(f) ==
  IF f.k = "inf" THEN PosInf
  ELSE Num(12 * Log2(f.n, A4Hz * f.d) + A4Midi * One, One)

\* line 21: Math.round(n)
RoundNum(x) == IF x.k = "inf" THEN PosInf ELSE Num(Round(x.n), 1)

\* NoteOf with the octave taken as floor(midi / 12), the - 1 forgotten
NoteOfOctaveOff(nn, m) ==
  IF m.k = "inf" THEN [note |-> "NaN", solfege |-> "undefined", cents |-> NaN]
  ELSE LET diff == nn.n - m.n * One
           idx == JSRem(m.n, 12)
           octave == m.n \div 12
       IN IF idx < 0 THEN [note |-> "NaN", solfege |-> "undefined", cents |-> Num(100 * diff, One)]
          ELSE [note |-> noteNames[idx + 1] \o ToString(octave),
                solfege |-> solfegeNames[idx + 1],
                cents |-> Num(100 * diff, One)]

\* lines 22-29.  For Infinity, diff and idx are NaN, noteNames[NaN] is
\* undefined and undefined + Infinity is NaN; a negative idx reads undefined
\* as well.
NoteOfOctaveFromN(nn, m) ==
  IF m.k = "inf" THEN [note |-> "NaN", solfege |-> "undefined", cents |-> NaN]
  ELSE LET diff == nn.n - m.n * One
           idx == JSRem(m.n, 12)
           octave == (nn.n \div (12 * One)) - 1
       IN IF idx < 0 THEN [note |-> "NaN", solfege |-> "undefined", cents |-> Num(100 * diff, One)]
          ELSE [note |-> noteNames[idx + 1] \o ToString(octave),
                solfege |-> solfegeNames[idx + 1],
                cents |-> Num(100 * diff, One)]

NoteOf(nn, m) ==
  IF m.k = "inf" THEN [note |-> "NaN", solfege |-> "undefined", cents |-> NaN]
  ELSE LET diff == nn.n - m.n * One
           idx == JSRem(m.n, 12)
           octave == (m.n \div 12) - 1
       IN IF idx < 0 THEN [note |-> "NaN", solfege |-> "undefined", cents |-> Num(100 * diff, One)]
          ELSE [note |-> noteNames[idx + 1] \o ToString(octave),
                solfege |-> solfegeNames[idx + 1],
                cents |-> Num(100 * diff, One)]

\* ------------------------------------------------------------------ inputs
\* sample bytes: -128, -26, 0, 25 and 127 once centred (25 / 128 is below the
\* trim threshold 0.2, 26 / 128 is not)
SampleValues == {0, 102, 128, 153, 255}
Buffers == UNION {[1..l -> SampleValues] : l \in 0..MaxLen}
\* two rates of audio hardware, and a negative one
SampleRates == {44100, 48000, -44100}
\* the default gate, the ends of the slider of the caller, and one above it
GateValues == {0, 30, 80, 90}

\* frequencies in hundredths of a Hz: below and at the floor, the octaves of
\* A, A#4, a frequency half a semitone above A#4, one on either side of C2,
\* and a sweep of whole Hz
CentiHz ==
  {-500, 0, 1999, 2000, 2750, 5500, 11000, 22000, 44000, 46616, 47990, 88000, 500000,
   6400, 6600}
    \cup {100 * h : h \in 15..MaxHz}
Frequencies == {Num(h, 100) : h \in CentiHz} \cup {NaN, Undefined, PosInf, NegInf}

\* ------------------------------------------------------------------- state
VARIABLES fn, pc, work,
          buf, sampleRate, gate, rms, r1, r2, b2, c, i, d, mx, mp, ret,
          freq, n, midi, info,
          phase, first,
          mode, isPlaying, isPaused, isMicActive, frequency, noiseGate, detectedPitch,
          modeRef, isPlayingRef, isPausedRef, isMicActiveRef, noiseGateRef,
          oscGainRef, analyserRef, micStreamRef, animRef,
          scheduled, micRequests, effectsPending, event, estimate,
          oscNodeRef, oscRunning, liveStreams, micQuiet,
          holes, isBlowing, pitch, oscRef, gainRef, oscillators, cleanups,
          activeStringIdx, fingerY, violinPitch, vOsc1Ref, vOsc2Ref, vGainRef,
          voices, stopTimers,
          metroPlaying, bpm, beatsPerBar, currentBeat, nextNoteTimeRef, timerIDRef,
          beatRef, intervals, currentTime, flashes, lastNote, spacing

acVars == << buf, sampleRate, gate, rms, r1, r2, b2, c, i, d, mx, mp, ret >>
acLocals == << rms, r1, r2, b2, c, i, d, mx, mp >>
noteVars == << freq, n, midi, info >>
\* phase counts the calls of the behaviour; first remembers the first one,
\* its arguments and what it returned
callVars == << phase, first >>
\* the component WaveExperiment: its state, its refs, and around it the
\* callbacks scheduled by requestAnimationFrame, the getUserMedia requests not
\* yet answered, whether a commit still has its effects to run, the last event
\* and the estimate of the last run of draw
waveState == << mode, isPlaying, isPaused, isMicActive, frequency, noiseGate, detectedPitch >>
waveRefs == << modeRef, isPlayingRef, isPausedRef, isMicActiveRef, noiseGateRef,
               oscGainRef, analyserRef, micStreamRef, animRef >>
\* oscNodeRef beside oscGainRef, and around the component the oscillators
\* started and not stopped, the microphone streams acquired whose tracks are
\* not stopped, and whether stopMic has run with no request made since
waveAudio == << oscNodeRef, oscRunning, liveStreams, micQuiet >>
waveVars == << waveState, waveRefs, waveAudio, scheduled, micRequests, effectsPending,
              event, estimate >>
\* the component RecorderExperiment: its state, its refs, and around it every
\* oscillator started so far and the cleanup timers not yet fired
recorderVars == << holes, isBlowing, pitch, oscRef, gainRef, oscillators, cleanups >>
\* the component ViolinExperiment: its state, its refs, every pair of
\* oscillators started so far and the cleanup timers not yet fired
violinVars == << activeStringIdx, fingerY, violinPitch, vOsc1Ref, vOsc2Ref, vGainRef,
                voices, stopTimers >>
\* the component MetronomeExperiment (its isPlaying is metroPlaying here): its
\* state, its refs, the interval timers registered with the render each one
\* closes over, the clock of the audio context, the visual updates waiting,
\* the beat scheduled last and the spacing of the last two
metroVars == << metroPlaying, bpm, beatsPerBar, currentBeat, nextNoteTimeRef, timerIDRef,
               beatRef, intervals, currentTime, flashes, lastNote, spacing >>
benchVars == << recorderVars, violinVars, metroVars >>
vars == << fn, pc, work, acVars, noteVars, callVars, waveVars, benchVars >>

NoArray == [j \in {} |-> 0]
NoInfo == [note |-> "", solfege |-> "", cents |-> Undefined]

DefaultFrequency == 440
DefaultGate == 30
NoPitchShown == [hz |-> 0, note |-> "--", solfege |-> "--"]
\* animRef.current: null, the id of a callback that has run, or an id
NoFrame == -1
RanFrame == 0

\* lines 12-49: the component as mounted
Mounted ==
  /\ mode = "playback" /\ isPlaying = FALSE /\ isPaused = FALSE /\ isMicActive = FALSE
  /\ frequency = DefaultFrequency /\ noiseGate = DefaultGate
  /\ detectedPitch = NoPitchShown
  /\ modeRef = "playback" /\ isPlayingRef = FALSE /\ isPausedRef = FALSE
  /\ isMicActiveRef = FALSE /\ noiseGateRef = DefaultGate
  /\ oscGainRef = FALSE /\ analyserRef = FALSE /\ micStreamRef = FALSE
  /\ animRef = NoFrame
  /\ scheduled = {} /\ micRequests = 0 /\ effectsPending = FALSE
  /\ event = "mount" /\ estimate = Undefined
  /\ oscNodeRef = FALSE /\ oscRunning = 0 /\ liveStreams = 0 /\ micQuiet = FALSE

NoNode == 0
NoTimer == 0
NoNote == [time |-> -1, bpm |-> 0]
NoSpacing == [ms |-> -1, bpm |-> 0, before |-> 0]
DefaultBpm == 120
DefaultBeatsPerBar == 4

\* RecorderExperiment.tsx lines 5-10: the component as mounted
RecorderMounted ==
  /\ holes = [h \in 0..7 |-> FALSE] /\ isBlowing = FALSE /\ pitch = NoPitchShown
  /\ oscRef = NoNode /\ gainRef = NoNode
  /\ oscillators = << >> /\ cleanups = 0

\* ViolinExperiment.tsx lines 14-24: the component as mounted
ViolinMounted ==
  /\ activeStringIdx = -1 /\ fingerY = -1 /\ violinPitch = NoPitchShown
  /\ vOsc1Ref = NoNode /\ vOsc2Ref = NoNode /\ vGainRef = NoNode
  /\ voices = << >> /\ stopTimers = 0

\* WaveExperiment.tsx lines 577-589: the component MetronomeExperiment as mounted
MetronomeMounted ==
  /\ metroPlaying = FALSE /\ bpm = DefaultBpm /\ beatsPerBar = DefaultBeatsPerBar
  /\ currentBeat = 0
  /\ nextNoteTimeRef = 0 /\ timerIDRef = NoTimer /\ beatRef = 0
  /\ intervals = {} /\ currentTime = 0 /\ flashes = << >>
  /\ lastNote = NoNote /\ spacing = NoSpacing

\* the components that the behaviour leaves alone
Benches == RecorderMounted /\ ViolinMounted /\ MetronomeMounted

NoCall ==
  [fn |-> "none", buf |-> << >>, sampleRate |-> 0, gate |-> 0, ret |-> Undefined,
   lag |-> FALSE, mp |-> 0, freq |-> Undefined, midi |-> Undefined, info |-> NoInfo,
   mid |-> FALSE]

\* the locals of both functions before their declarations have run
FreshLocals ==
  /\ rms = 0 /\ r1 = 0 /\ r2 = 0 /\ b2 = << >> /\ c = NoArray
  /\ i = 0 /\ d = 0 /\ mx = 0 /\ mp = 0
  /\ ret = Undefined
  /\ n = Undefined /\ midi = Undefined /\ info = NoInfo

\* a call of autoCorrelate(buf, sampleRate, gate) or of getNoteInfo(freq)
Init ==
  /\ fn \in {"autoCorrelate", "getNoteInfo"}
  /\ pc = "entry"
  /\ work = {}
  /\ IF fn = "autoCorrelate"
     THEN /\ buf \in Buffers
          /\ sampleRate \in SampleRates
          /\ gate \in GateValues
          /\ freq = Undefined
     ELSE /\ buf = << >>
          /\ sampleRate = 0
          /\ gate = 0
          /\ freq \in Frequencies
  /\ FreshLocals
  /\ phase = 1 /\ first = NoCall
  /\ Mounted
  /\ Benches

\* ------------------------------------------------- autoCorrelate, by statement
\* lines 33-37
Rms ==
  /\ fn = "autoCorrelate" /\ pc = "entry"
  /\ rms' = SumSq(buf, 0)
  /\ pc' = "gate"
  /\ work' = work \cup {"rms"}
  /\ UNCHANGED << benchVars, waveVars, callVars, fn, buf, sampleRate, gate, r1, r2, b2, c, i, d, mx, mp, ret, noteVars >>

\* Gate with the comparison inverted: db > gate rejects
GateInverted ==
  /\ fn = "autoCorrelate" /\ pc = "gate"
  /\ work' = work \cup {"gate"}
  /\ IF ~DbBelowGate(rms, Len(buf), gate)
     THEN /\ ret' = NoPitch
          /\ pc' = "done"
          /\ UNCHANGED << r1, r2 >>
     ELSE /\ r1' = 0
          /\ r2' = Len(buf) - 1
          /\ pc' = "trimFront"
          /\ UNCHANGED ret
  /\ UNCHANGED << benchVars, waveVars, callVars, fn, buf, sampleRate, gate, rms, b2, c, i, d, mx, mp, noteVars >>

\* lines 38-42
Gate ==
  /\ fn = "autoCorrelate" /\ pc = "gate"
  /\ work' = work \cup {"gate"}
  /\ IF DbBelowGate(rms, Len(buf), gate)
     THEN /\ ret' = NoPitch
          /\ pc' = "done"
          /\ UNCHANGED << r1, r2 >>
     ELSE /\ r1' = 0
          /\ r2' = Len(buf) - 1
          /\ pc' = "trimFront"
          /\ UNCHANGED ret
  /\ UNCHANGED << benchVars, waveVars, callVars, fn, buf, sampleRate, gate, rms, b2, c, i, d, mx, mp, noteVars >>

\* line 44
TrimFront ==
  /\ fn = "autoCorrelate" /\ pc = "trimFront"
  /\ r1' = ScanFront(buf, 0, r1)
  /\ pc' = "trimBack"
  /\ work' = work \cup {"trim"}
  /\ UNCHANGED << benchVars, waveVars, callVars, fn, buf, sampleRate, gate, rms, r2, b2, c, i, d, mx, mp, ret, noteVars >>

\* line 45
TrimBack ==
  /\ fn = "autoCorrelate" /\ pc = "trimBack"
  /\ r2' = ScanBack(buf, 1, r2)
  /\ pc' = "slice"
  /\ work' = work \cup {"trim"}
  /\ UNCHANGED << benchVars, waveVars, callVars, fn, buf, sampleRate, gate, rms, r1, b2, c, i, d, mx, mp, ret, noteVars >>

\* lines 47-49
SliceBufReuseArray ==
  /\ fn = "autoCorrelate" /\ pc = "slice"
  /\ b2' = Slice(buf, r1, r2)
  /\ c' = [j \in 0..(Len(b2') - 1) |-> IF j \in DOMAIN c THEN c[j] ELSE 0]
  /\ i' = 0
  /\ pc' = "acf"
  /\ work' = work \cup {"slice"}
  /\ UNCHANGED << benchVars, waveVars, callVars, fn, buf, sampleRate, gate, rms, r1, r2, d, mx, mp, ret, noteVars >>

SliceBuf ==
  /\ fn = "autoCorrelate" /\ pc = "slice"
  /\ b2' = Slice(buf, r1, r2)
  /\ c' = [j \in 0..(Len(b2') - 1) |-> 0]
  /\ i' = 0
  /\ pc' = "acf"
  /\ work' = work \cup {"slice"}
  /\ UNCHANGED << benchVars, waveVars, callVars, fn, buf, sampleRate, gate, rms, r1, r2, d, mx, mp, ret, noteVars >>

\* lines 51-57: one pass of the outer loop, or its exit
Acf ==
  /\ fn = "autoCorrelate" /\ pc = "acf"
  /\ work' = work \cup {"acf"}
  /\ IF i < Len(b2)
     THEN /\ c' = [c EXCEPT ![i] = c[i] + LagSum(b2, i, 0)]
          /\ i' = i + 1
          /\ UNCHANGED << d, pc >>
     ELSE /\ d' = 0
          /\ pc' = "descent"
          /\ UNCHANGED << c, i >>
  /\ UNCHANGED << benchVars, waveVars, callVars, fn, buf, sampleRate, gate, rms, r1, r2, b2, mx, mp, ret, noteVars >>

\* Descent with the running maximum started at 0: mx = 0
DescentMaxFromZero ==
  /\ fn = "autoCorrelate" /\ pc = "descent"
  /\ work' = work \cup {"descent"}
  /\ IF ArrGreater(c, d, d + 1)
     THEN /\ d' = d + 1
          /\ UNCHANGED << mx, mp, i, pc >>
     ELSE /\ mx' = 0
          /\ mp' = -1
          /\ i' = d
          /\ pc' = "peak"
          /\ UNCHANGED d
  /\ UNCHANGED << benchVars, waveVars, callVars, fn, buf, sampleRate, gate, rms, r1, r2, b2, c, ret, noteVars >>

\* lines 58-59: one pass of the while loop, or its exit
Descent ==
  /\ fn = "autoCorrelate" /\ pc = "descent"
  /\ work' = work \cup {"descent"}
  /\ IF ArrGreater(c, d, d + 1)
     THEN /\ d' = d + 1
          /\ UNCHANGED << mx, mp, i, pc >>
     ELSE /\ mx' = -Unit
          /\ mp' = -1
          /\ i' = d
          /\ pc' = "peak"
          /\ UNCHANGED d
  /\ UNCHANGED << benchVars, waveVars, callVars, fn, buf, sampleRate, gate, rms, r1, r2, b2, c, ret, noteVars >>

\* Peak with c[i] >= mx: the last of several equal maxima wins
PeakLastMax ==
  /\ fn = "autoCorrelate" /\ pc = "peak"
  /\ work' = work \cup {"peak"}
  /\ IF i < Len(b2)
     THEN /\ IF c[i] >= mx
             THEN mx' = c[i] /\ mp' = i
             ELSE UNCHANGED << mx, mp >>
          /\ i' = i + 1
          /\ UNCHANGED pc
     ELSE /\ pc' = "return"
          /\ UNCHANGED << mx, mp, i >>
  /\ UNCHANGED << benchVars, waveVars, callVars, fn, buf, sampleRate, gate, rms, r1, r2, b2, c, d, ret, noteVars >>

\* lines 60-65: one pass of the for loop, or its exit
Peak ==
  /\ fn = "autoCorrelate" /\ pc = "peak"
  /\ work' = work \cup {"peak"}
  /\ IF i < Len(b2)
     THEN /\ IF c[i] > mx
             THEN mx' = c[i] /\ mp' = i
             ELSE UNCHANGED << mx, mp >>
          /\ i' = i + 1
          /\ UNCHANGED pc
     ELSE /\ pc' = "return"
          /\ UNCHANGED << mx, mp, i >>
  /\ UNCHANGED << benchVars, waveVars, callVars, fn, buf, sampleRate, gate, rms, r1, r2, b2, c, d, ret, noteVars >>

\* Return with the lag where the descent stopped in place of the peak lag
ReturnDescentLag ==
  /\ fn = "autoCorrelate" /\ pc = "return"
  /\ ret' = JSDiv(sampleRate, d)
  /\ pc' = "done"
  /\ work' = work \cup {"return"}
  /\ UNCHANGED << benchVars, waveVars, callVars, fn, buf, sampleRate, gate, acLocals, noteVars >>

\* line 67
Return ==
  /\ fn = "autoCorrelate" /\ pc = "return"
  /\ ret' = JSDiv(sampleRate, mp)
  /\ pc' = "done"
  /\ work' = work \cup {"return"}
  /\ UNCHANGED << benchVars, waveVars, callVars, fn, buf, sampleRate, gate, acLocals, noteVars >>

\* --------------------------------------------------- getNoteInfo, by statement
\* line 19
CheckSignal ==
  /\ fn = "getNoteInfo" /\ pc = "entry"
  /\ work' = work \cup {"check"}
  /\ IF IsNoSignal(freq)
     THEN info' = Sentinel /\ pc' = "done"
     ELSE info' = info /\ pc' = "semitone"
  /\ UNCHANGED << benchVars, waveVars, callVars, fn, acVars, freq, n, midi >>

\* line 20
ComputeSemitone ==
  /\ fn = "getNoteInfo" /\ pc = "semitone"
  /\ n' = Semitone(freq)
  /\ pc' = "round"
  /\ work' = work \cup {"semitone"}
  /\ UNCHANGED << benchVars, waveVars, callVars, fn, acVars, freq, midi, info >>

\* line 21
RoundSemitone ==
  /\ fn = "getNoteInfo" /\ pc = "round"
  /\ midi' = RoundNum(n)
  /\ pc' = "build"
  /\ work' = work \cup {"round"}
  /\ UNCHANGED << benchVars, waveVars, callVars, fn, acVars, freq, n, info >>

\* lines 22-29
BuildInfo ==
  /\ fn = "getNoteInfo" /\ pc = "build"
  /\ info' = NoteOf(n, midi)
  /\ pc' = "done"
  /\ work' = work \cup {"build"}
  /\ UNCHANGED << benchVars, waveVars, callVars, fn, acVars, freq, n, midi >>

Next ==
  \/ Rms \/ Gate \/ TrimFront \/ TrimBack \/ SliceBuf
  \/ Acf \/ Descent \/ Peak \/ Return
  \/ CheckSignal \/ ComputeSemitone \/ RoundSemitone \/ BuildInfo

Spec == Init /\ [][Next]_vars

\* a call of autoCorrelate on any buffer, at one sample rate and the default
\* gate
InitLive ==
  /\ fn = "autoCorrelate"
  /\ pc = "entry"
  /\ work = {}
  /\ buf \in Buffers
  /\ sampleRate = 44100
  /\ gate = 30
  /\ freq = Undefined
  /\ FreshLocals
  /\ phase = 1 /\ first = NoCall
  /\ Mounted
  /\ Benches

NextLive ==
  \/ Rms \/ Gate \/ TrimFront \/ TrimBack \/ SliceBuf
  \/ Acf \/ Descent \/ Peak \/ Return

\* a call that has started runs on: JavaScript runs a function to its return
SpecLive == InitLive /\ [][NextLive]_vars /\ WF_vars(NextLive)

\* ------------------------------------------------- the calls as functions
\* line 58 run to its exit from index k
RECURSIVE DescentFrom(_, _)
DescentFrom(arr, k) ==
  IF ArrGreater(arr, k, k + 1) THEN DescentFrom(arr, k + 1) ELSE k

\* lines 32-68, the value returned
autoCorrelate(b, sr, g) ==
  IF DbBelowGate(SumSq(b, 0), Len(b), g) THEN NoPitch
  ELSE LET front == ScanFront(b, 0, 0)
           back == ScanBack(b, 1, Len(b) - 1)
           trimmed == Slice(b, front, back)
           acf == [j \in 0..(Len(trimmed) - 1) |-> LagSum(trimmed, j, 0)]
           stop == DescentFrom(acf, 0)
           peak == PeakFrom(acf, stop, Len(trimmed), [mx |-> -Unit, mp |-> -1])
       IN JSDiv(sr, peak.mp)

\* lines 18-30, the value returned
getNoteInfo(f) ==
  IF IsNoSignal(f) THEN Sentinel
  ELSE LET semitone == Semitone(f)
       IN NoteOf(semitone, RoundNum(semitone))

\* ------------------------------------------------------- successive calls
\* A behaviour of SpecCalls makes up to three calls.  The frame of a call is
\* left as it is when the next call starts: whatever the next call reads
\* before writing it is what the call before left there.
MaxRepeatLen == 3
RepeatBuffers == UNION {[1..l -> SampleValues] : l \in 0..MaxRepeatLen}
RepeatRates == {44100}
RepeatGates == {30, 90}
\* the calls made between a call and its repetition
BetweenBuffers ==
  { [j \in 1..MaxLen |-> 0],
    [j \in 1..MaxLen |-> IF j % 2 = 1 THEN 255 ELSE 0],
    [j \in 1..MaxLen |-> Center] }
BetweenFrequencies == {Num(100 * A4Hz, 100), PosInf}

InitCalls ==
  /\ fn \in {"autoCorrelate", "getNoteInfo"}
  /\ pc = "entry"
  /\ work = {}
  /\ IF fn = "autoCorrelate"
     THEN /\ buf \in RepeatBuffers
          /\ sampleRate \in RepeatRates
          /\ gate \in RepeatGates
          /\ freq = Undefined
     ELSE /\ buf = << >>
          /\ sampleRate = 0
          /\ gate = 0
          /\ freq \in Frequencies
  /\ FreshLocals
  /\ phase = 1 /\ first = NoCall
  /\ Mounted
  /\ Benches

\* what the call that has just returned was given and gave back
Snapshot(between) ==
  [fn |-> fn, buf |-> buf, sampleRate |-> sampleRate, gate |-> gate, ret |-> ret,
   lag |-> "return" \in work, mp |-> mp, freq |-> freq, midi |-> midi, info |-> info,
   mid |-> between]

\* the caller makes another call between autoCorrelate and its repetition
Intervene ==
  /\ pc = "done" /\ phase = 1 /\ fn = "autoCorrelate"
  /\ first' = Snapshot(TRUE)
  /\ phase' = 2
  /\ pc' = "entry"
  /\ work' = {}
  /\ \/ /\ fn' = "autoCorrelate"
        /\ buf' \in BetweenBuffers
        /\ sampleRate' \in RepeatRates
        /\ gate' = 0
        /\ freq' = Undefined
     \/ /\ fn' = "getNoteInfo"
        /\ buf' = << >>
        /\ sampleRate' = 0
        /\ gate' = 0
        /\ freq' \in BetweenFrequencies
  /\ ret' = Undefined /\ info' = NoInfo
  /\ UNCHANGED << benchVars, waveVars, acLocals, n, midi >>

\* the caller calls autoCorrelate again with the arguments of the first call
Repeat ==
  /\ pc = "done"
  /\ \/ phase = 1 /\ fn = "autoCorrelate" /\ first' = Snapshot(FALSE)
     \/ phase = 2 /\ first.fn = "autoCorrelate" /\ first' = first
  /\ phase' = 3
  /\ pc' = "entry"
  /\ work' = {}
  /\ fn' = "autoCorrelate"
  /\ buf' = first'.buf
  /\ sampleRate' = first'.sampleRate
  /\ gate' = first'.gate
  /\ freq' = Undefined
  /\ ret' = Undefined /\ info' = NoInfo
  /\ UNCHANGED << benchVars, waveVars, acLocals, n, midi >>

\* the caller maps a second frequency after the first
MapAnother ==
  /\ pc = "done" /\ phase = 1 /\ fn = "getNoteInfo"
  /\ first' = Snapshot(FALSE)
  /\ phase' = 2
  /\ pc' = "entry"
  /\ work' = {}
  /\ freq' \in Frequencies
  /\ ret' = Undefined /\ info' = NoInfo
  /\ UNCHANGED << benchVars, waveVars, fn, buf, sampleRate, gate, acLocals, n, midi >>

NextCalls ==
  \/ Rms \/ Gate \/ TrimFront \/ TrimBack \/ SliceBuf
  \/ Acf \/ Descent \/ Peak \/ Return
  \/ CheckSignal \/ ComputeSemitone \/ RoundSemitone \/ BuildInfo
  \/ Intervene \/ Repeat \/ MapAnother

SpecCalls == InitCalls /\ [][NextCalls]_vars

\* --------------------------------------------------------- a sampled sine
\* A sine of A4Hz sampled at 44100 Hz as getByteTimeDomainData delivers it:
\* sample k is floor(128 * (1 + sin(2 * pi * A4Hz * k / 44100))), clamped to
\* 0..255.
SineSamples ==
  <<
     128, 136, 144, 151, 159, 167, 175, 182, 189, 196, 203, 209, 215, 221, 226, 231, 235, 240, 243, 246, 249, 251, 253, 254,
     255, 255, 255, 255, 253, 252, 249, 247, 244, 240, 236, 231, 227, 221, 216, 210, 203, 197, 190, 183, 175, 168, 160, 152,
     144, 136, 128, 120, 112, 104, 97, 89, 81, 74, 67, 60, 53, 47, 41, 35, 30, 25, 20, 16, 12, 9, 6, 4,
     2, 1, 0, 0, 0, 0, 2, 3, 5, 8, 11, 15, 19, 23, 28, 33, 39, 45, 51, 58, 64, 71, 79, 86,
     94, 102, 110, 118, 126, 134, 142, 150, 157, 165, 173, 180, 187, 194, 201, 208, 214, 219, 225, 230, 234, 239, 242, 246,
     249, 251, 253, 254, 255, 255, 255, 255, 254, 252, 250, 247, 244, 241, 237, 232, 228, 223, 217, 211, 205, 198, 191, 184,
     177, 170, 162, 154, 146, 138, 130, 122, 114, 106, 98, 91, 83, 76, 68, 61, 55, 48, 42, 36, 31, 26, 21, 17,
     13, 10, 7, 4, 2, 1, 0, 0, 0, 0, 1, 3, 5, 7, 10, 14, 18, 22, 27, 32, 37, 43, 49, 56,
     63, 70, 77, 85, 92, 100, 108, 116, 124, 132, 140, 148, 156, 163, 171, 179, 186, 193, 200, 206, 212, 218, 224, 229,
     233, 238, 242, 245, 248, 250, 252, 254, 255, 255, 255, 255, 254, 252, 250, 248, 245, 242, 238, 234, 229, 224, 218, 212,
     206, 200, 193, 186, 179, 171, 164, 156, 148, 140, 132, 124, 116, 108, 100, 92, 85, 77, 70, 63, 56, 50, 43, 38,
     32, 27, 22, 18, 14, 10, 7, 5, 3, 1, 0, 0, 0, 0, 1, 2, 4, 7, 10, 13, 17, 21, 26, 31,
     36, 42, 48, 54, 61, 68, 75, 83, 90, 98, 106, 114, 122, 130, 138, 146, 154, 162, 169, 177, 184, 191, 198, 205,
     211, 217, 222, 228, 232, 237, 241, 244, 247, 250, 252, 254, 255, 255, 255, 255, 254, 253, 251, 249, 246, 242, 239, 235,
     230, 225, 220, 214, 208, 201, 195, 188, 180, 173, 165, 158, 150, 142, 134, 126, 118, 110, 102, 94, 86, 79, 72, 65,
     58, 51, 45, 39, 33, 28, 23, 19, 15, 11, 8, 5, 3, 2, 0, 0, 0, 0, 1, 2, 4, 6, 9, 12,
     16, 20, 25, 30, 35, 41, 47, 53, 60, 67, 74, 81, 89, 96, 104, 112, 120, 128, 136, 144, 152, 160, 168, 175,
     183, 190, 197, 203, 209, 215, 221, 226, 231, 236, 240, 243, 247, 249, 252, 253, 255, 255, 255, 255, 254, 253, 251, 249,
     246, 243, 240, 236, 231, 226, 221, 215, 209, 203, 196, 189, 182, 175, 167, 159, 152, 144, 136, 128, 120, 112, 104, 96,
     88, 81, 73, 66, 59, 53, 46, 40, 34, 29, 24, 20, 16, 12, 9, 6, 4, 2, 1, 0, 0, 0, 0, 2,
     3, 6, 8, 11, 15, 19, 23, 28, 34, 39, 45, 52, 58, 65, 72, 79, 87, 95, 102, 110, 118, 126, 134, 142,
     150, 158, 166, 173, 181, 188, 195, 202, 208, 214, 220, 225, 230, 235, 239, 243, 246, 249, 251, 253, 254, 255, 255, 255,
     255, 254, 252, 250, 247, 244, 240, 236, 232, 227, 222, 216, 210, 204, 198, 191, 184, 176, 169, 161, 153, 145, 138, 130,
     121, 113, 106, 98, 90, 82, 75, 68, 61, 54, 48, 42, 36, 30, 25, 21, 16, 13, 9, 7, 4, 2, 1, 0,
     0, 0, 0, 1, 3, 5, 8, 11, 14, 18, 22, 27, 32, 38, 44, 50, 57, 63, 70, 78, 85, 93, 101, 109,
     117, 125, 133, 141, 149, 156, 164, 172, 179, 186, 193, 200, 207, 213, 219, 224, 229, 234, 238, 242, 245, 248, 251, 253,
     254, 255, 255, 255, 255, 254, 252, 250, 248, 245, 241, 237, 233, 228, 223, 218, 212, 206, 199, 192, 185, 178, 171, 163,
     155, 147, 139, 131, 123, 115, 107, 99, 92, 84, 77, 69, 62, 56, 49, 43, 37, 32, 26, 22, 17, 14, 10, 7,
     5, 3, 1, 0, 0, 0, 0, 1, 3, 4, 7, 10, 13, 17, 21, 26, 31, 37, 42, 49, 55, 62, 69, 76,
     84, 91, 99, 107, 115, 123, 131, 139, 147, 155, 162, 170, 178, 185, 192, 199, 205, 211, 217, 223, 228, 233, 237, 241,
     245, 248, 250, 252, 254, 255, 255, 255, 255, 254, 253, 251, 248, 245, 242, 238, 234, 229, 224, 219, 213, 207, 201, 194,
     187, 180, 172, 165, 157, 149, 141, 133, 125, 117, 109, 101, 93, 86, 78, 71, 64, 57, 51, 44, 38, 33, 28, 23,
     18, 14, 11, 8, 5, 3, 1, 0, 0, 0, 0, 1, 2, 4, 6, 9, 12, 16, 20, 25, 30, 35, 41, 47,
     54, 60, 67, 74, 82, 89, 97, 105, 113, 121, 129, 137, 145, 153, 161, 168, 176, 183, 190, 197, 204, 210, 216, 222,
     227, 232, 236, 240, 244, 247, 250, 252, 253, 255, 255, 255, 255, 254, 253, 251, 249, 246, 243, 239, 235, 231, 226, 220,
     215, 209, 202, 195, 189, 181, 174, 166, 159, 151, 143, 135, 127, 119, 111, 103, 95, 88, 80, 73, 65, 59, 52, 46,
     40, 34, 29, 24, 19, 15, 12, 8, 6, 3, 2, 0, 0, 0, 0, 1, 2, 4, 6, 8, 12, 15, 19, 24,
     29, 34, 40, 46, 52, 59, 66, 73, 80, 88, 95, 103, 111, 119, 127, 135, 143, 151, 159, 167, 174, 182, 189, 196,
     202, 209, 215, 220, 226, 231, 235, 239, 243, 246, 249, 251, 253, 254, 255, 255, 255, 255, 253, 252, 250, 247, 244, 240,
     236, 232, 227, 222, 216, 210, 204, 197, 190, 183, 176, 168, 160, 153, 145, 137, 129, 121, 113, 105, 97, 89, 82, 74,
     67, 60, 53, 47, 41, 35, 30, 25, 20, 16, 12, 9, 6, 4, 2, 1, 0, 0, 0, 0, 1, 3, 5, 8,
     11, 14, 18, 23, 28, 33, 38, 44, 51, 57, 64, 71, 78, 86, 94, 101, 109, 117, 125, 133, 141, 149, 157, 165,
     172, 180, 187, 194, 201, 207, 213, 219, 225, 230, 234, 238, 242, 246, 248, 251, 253, 254, 255, 255, 255, 255, 254, 252,
     250, 247, 244, 241, 237, 233, 228, 223, 217, 211, 205, 199, 192, 185, 177, 170, 162, 154, 147, 139, 131, 123, 115, 107,
     99, 91, 83, 76, 69, 62, 55, 48, 42, 37, 31, 26, 21, 17, 13, 10, 7, 4, 2, 1, 0, 0, 0, 0,
     1, 3, 5, 7, 10, 14, 17, 22, 27, 32, 37, 43, 49, 56, 62, 70, 77, 84, 92, 100, 108, 115, 123, 132,
     140, 147, 155, 163, 171, 178, 185, 193, 199, 206, 212, 218, 223, 228, 233, 238, 241, 245, 248, 250, 252, 254, 255, 255,
     255, 255, 254, 253, 251, 248, 245, 242, 238, 234, 229, 224, 218, 213, 207, 200, 193, 186, 179, 172, 164, 156, 148, 140,
     132, 124, 116, 108, 101, 93, 85, 78, 70, 63, 56, 50, 44, 38, 32, 27, 22, 18, 14, 11, 8, 5, 3, 1,
     0, 0, 0, 0, 1, 2, 4, 7, 9, 13, 17, 21, 25, 30, 36, 42, 48, 54, 61, 68, 75, 83, 90, 98,
     106, 114, 122, 130, 138, 146, 154, 161, 169, 177, 184, 191, 198, 204, 211, 217, 222, 227, 232, 237, 241, 244, 247, 250,
     252, 254, 255, 255, 255, 255, 254, 253, 251, 249, 246, 243, 239, 235, 230, 225, 220, 214, 208, 202, 195, 188, 181, 173,
     166, 158, 150, 142, 134, 126, 118, 110, 102, 95, 87, 79, 72, 65, 58, 51, 45, 39, 33, 28, 23, 19, 15, 11,
     8, 5, 3, 2, 0, 0, 0, 0, 1, 2, 4, 6, 9, 12, 16, 20, 24, 29, 35, 40, 46, 53, 59, 66,
     73, 81, 88, 96, 104, 112, 120, 128, 136, 144, 152, 160, 167, 175, 182, 189, 196, 203, 209, 215, 221, 226, 231, 236,
     240, 243, 247, 249, 251, 253, 254, 255, 255, 255, 255, 253, 252, 249, 247, 243, 240, 236, 231, 226, 221, 215, 209, 203,
     196, 190, 182, 175, 167, 160, 152, 144, 136, 128, 120, 112, 104, 96, 89, 81, 74, 66, 60, 53, 46, 40, 35, 29,
     24, 20, 16, 12, 9, 6, 4, 2, 1, 0, 0, 0, 0, 2, 3, 5, 8, 11, 15, 19, 23, 28, 33, 39,
     45, 51, 58, 65, 72, 79, 87, 94, 102, 110, 118, 126, 134, 142, 150, 158, 166, 173, 181, 188, 195, 201, 208, 214,
     220, 225, 230, 235, 239, 243, 246, 249, 251, 253, 254, 255, 255, 255, 255, 254, 252, 250, 247, 244, 241, 237, 232, 227,
     222, 217, 211, 204, 198, 191, 184, 177, 169, 162, 154, 146, 138, 130, 122, 114, 106, 98, 90, 83, 75, 68, 61, 54,
     48, 42, 36, 31, 26, 21, 17, 13, 10, 7, 4, 2, 1, 0, 0, 0, 0, 1, 3, 5, 7, 10, 14, 18,
     22, 27, 32, 38, 44, 50, 56, 63, 70, 77, 85, 93, 100, 108, 116, 124, 132, 140, 148, 156, 164, 171, 179, 186,
     193, 200, 206, 213, 218, 224, 229, 234, 238, 242, 245, 248, 251, 252, 254, 255, 255, 255, 255, 254, 252, 250, 248, 245,
     241, 238, 233, 229, 223, 218, 212, 206, 199, 193, 186, 178, 171, 163, 156, 148, 140, 132, 124, 116, 108, 100, 92, 84,
     77, 70, 63, 56, 49, 43, 37, 32, 27, 22, 18, 14, 10, 7, 5, 3, 1, 0, 0, 0, 0, 1, 2, 4,
     7, 10, 13, 17, 21, 26, 31, 36, 42, 48, 55, 62, 69, 76, 83, 91, 99, 106, 114, 122, 130, 138, 146, 154,
     162, 170, 177, 185, 192, 198, 205, 211, 217, 223, 228, 233, 237, 241, 244, 247, 250, 252, 254, 255, 255, 255, 255, 254,
     253, 251, 248, 246, 242, 239, 234, 230, 225, 219, 213, 207, 201, 194, 187, 180, 173, 165, 157, 149, 142, 134, 125, 117,
     110, 102, 94, 86, 79, 71, 64, 57, 51, 45, 39, 33, 28, 23, 19, 15, 11, 8, 5, 3, 1, 0, 0, 0,
     0, 1, 2, 4, 6, 9, 12, 16, 20, 25, 30, 35, 41, 47, 53, 60, 67, 74, 82, 89, 97, 105, 113, 121,
     129, 137, 145, 153, 160, 168, 176, 183, 190, 197, 203, 210, 216, 221, 227, 232, 236, 240, 244, 247, 249, 252, 253, 255,
     255, 255, 255, 254, 253, 251, 249, 246, 243, 239, 235, 231, 226, 221, 215, 209, 202, 196, 189, 182, 174, 167, 159, 151,
     143, 135, 127, 119, 111, 103, 96, 88, 80, 73, 66, 59, 52, 46, 40, 34, 29, 24, 19, 15, 12, 9, 6, 4,
     2, 1, 0, 0, 0, 0, 2, 3, 6, 8, 12, 15, 19, 24, 29, 34, 40, 46, 52, 58, 65, 72, 80, 87,
     95, 103, 111, 119, 127, 135, 143, 151, 159, 166, 174, 181, 188, 195, 202, 208, 214, 220, 225, 230, 235, 239, 243, 246,
     249, 251, 253, 254, 255, 255, 255, 255, 253, 252, 250, 247, 244, 240, 236, 232, 227, 222, 216, 210, 204, 197, 190, 183,
     176, 169, 161, 153, 145, 137, 129, 121, 113, 105, 97, 90, 82, 75, 67, 60, 54, 47, 41, 35, 30, 25, 20, 16,
     13, 9, 6, 4, 2, 1, 0, 0, 0, 0, 1, 3, 5, 8, 11, 14, 18, 23, 27, 33, 38, 44, 50, 57,
     64, 71, 78, 86, 93, 101, 109, 117, 125, 133, 141, 149, 157, 165, 172, 180, 187, 194, 201, 207, 213, 219, 224, 229,
     234, 238, 242, 245, 248, 251, 253, 254, 255, 255, 255, 255, 254, 252, 250, 248, 245, 241, 237, 233, 228, 223, 217, 212,
     205, 199, 192, 185, 178, 170, 163, 155, 147, 139, 131, 123, 115, 107, 99, 91, 84, 76, 69, 62, 55, 49, 43, 37,
     31, 26, 21, 17, 13, 10, 7, 5, 3, 1, 0, 0, 0, 0, 1, 3, 5, 7, 10, 13, 17, 22, 26, 31,
     37, 43, 49, 55, 62, 69, 76, 84, 92, 99, 107, 115, 123, 131, 139, 147, 155, 163, 170, 178, 185, 192, 199, 206,
     212, 218, 223, 228, 233, 237, 241, 245, 248, 250, 252, 254, 255, 255, 255, 255, 254, 253, 251, 248, 245, 242, 238, 234,
     229, 224, 219, 213, 207, 200, 194, 187, 179, 172, 164, 157, 149, 141, 133, 125, 117, 109, 101, 93, 85, 78, 71, 64,
     57, 50, 44, 38, 32, 27, 23, 18, 14, 11, 8, 5, 3, 1, 0, 0, 0, 0, 1, 2, 4, 6, 9, 13,
     16, 21, 25, 30, 36, 41, 47, 54, 61, 68, 75, 82, 90, 98, 105, 113, 121, 129, 137, 145, 153, 161, 169, 176,
     184, 191, 197, 204, 210, 216, 222, 227, 232, 236, 240
  >>

SineLen == 2048
\* the windows start at these samples, a quarter of a period apart
SineOffsets == {0, 25, 50, 75}
SineBuffers == {SubSeq(SineSamples, o + 1, o + SineLen) : o \in SineOffsets}
\* the default gate, which the sine passes, and one it does not pass
SineGates == {30, 100}

InitSine ==
  /\ fn = "autoCorrelate"
  /\ pc = "entry"
  /\ work = {}
  /\ buf \in SineBuffers
  /\ sampleRate = 44100
  /\ gate \in SineGates
  /\ freq = Undefined
  /\ FreshLocals
  /\ phase = 1 /\ first = NoCall
  /\ Mounted
  /\ Benches

\* On a window of this length the two loops over the whole working buffer are
\* taken in one step each.
\* lines 51-57: every pass of the outer loop, and the exit
AcfLoop ==
  /\ fn = "autoCorrelate" /\ pc = "acf"
  /\ work' = work \cup {"acf"}
  /\ c' = [j \in DOMAIN c |-> IF j >= i THEN c[j] + LagSum(b2, j, 0) ELSE c[j]]
  /\ i' = IF i < Len(b2) THEN Len(b2) ELSE i
  /\ d' = 0
  /\ pc' = "descent"
  /\ UNCHANGED << benchVars, waveVars, callVars, fn, buf, sampleRate, gate, rms, r1, r2, b2, mx, mp, ret, noteVars >>

\* lines 60-65: every pass of the for loop, and the exit
PeakLoop ==
  /\ fn = "autoCorrelate" /\ pc = "peak"
  /\ work' = work \cup {"peak"}
  /\ LET found == PeakFrom(c, i, Len(b2), [mx |-> mx, mp |-> mp])
     IN mx' = found.mx /\ mp' = found.mp
  /\ i' = IF i < Len(b2) THEN Len(b2) ELSE i
  /\ pc' = "return"
  /\ UNCHANGED << benchVars, waveVars, callVars, fn, buf, sampleRate, gate, rms, r1, r2, b2, c, d, ret, noteVars >>

NextSine ==
  \/ Rms \/ Gate \/ TrimFront \/ TrimBack \/ SliceBuf
  \/ AcfLoop \/ Descent \/ PeakLoop \/ Return

SpecSine == InitSine /\ [][NextSine]_vars

\* ------------------------------------------------------------ WaveExperiment
\* React 18: the updates of a click or a change event are committed, and the
\* effects of the commit are run, before the event is done; the update made
\* when getUserMedia answers is committed first and has its effects run later,
\* and a frame may come in between.
MaxPending == 3
MaxRequests == 2
\* streams left with unstopped tracks beyond which no further request is made
MaxStreams == 2
MinDetectHz == 50
MaxDetectHz == 5000

\* getAudioContext().sampleRate
ContextRates == {8000}
\* what getByteTimeDomainData may deliver
FrameBuffers ==
  { << 0, 0, 0, 0 >>, << 0, 0, 0, 0, 0 >>, << 0, 0, 0 >>, << 0, 0 >>,
    << 128, 128, 128, 128 >>, << 129, 129, 129, 129 >> }
\* what the frequency slider and the noise gate slider are moved to
SliderFrequencies == {20, DefaultFrequency, 5000}
SliderGates == {0, DefaultGate, 80}

FrameIds == 1..MaxPending
\* requestAnimationFrame returns an id that no scheduled callback has
FreshId(ids) == CHOOSE x \in FrameIds \ ids : \A y \in FrameIds \ ids : x <= y

\* Math.round of the number record x
RoundHz(x) == (2 * x.n + x.d) \div (2 * x.d)

\* line 144: freq > 50 && freq < 5000
Detectable(f) ==
  /\ f.k = "num" /\ f.d > 0
  /\ f.n > MinDetectHz * f.d
  /\ f.n < MaxDetectHz * f.d

\* what the functions of the component pass on to one another: the pitch
\* shown, animRef.current, the scheduled callbacks, the last estimate, and
\* whether more callbacks were asked for than MaxPending
Loop(dp, ar, sch, est) ==
  [detectedPitch |-> dp, animRef |-> ar, scheduled |-> sch, estimate |-> est, over |-> FALSE]

\* line 154: animRef.current = requestAnimationFrame(draw)
Request(L) ==
  IF L.scheduled = FrameIds THEN [L EXCEPT !.over = TRUE]
  ELSE [L EXCEPT !.animRef = FreshId(L.scheduled),
                 !.scheduled = L.scheduled \cup {FreshId(L.scheduled)}]

\* lines 167-170 and 173-176: cancelAnimationFrame(animRef.current) and null
Cancel(L) ==
  [L EXCEPT !.scheduled = L.scheduled \ {L.animRef}, !.animRef = NoFrame]

\* line 143 for every buffer, sample rate and gate of the model
Estimates ==
  [data \in FrameBuffers, rate \in ContextRates, g \in SliderGates |->
     autoCorrelate(data, rate, g)]

\* lines 145-146 for every estimate of the model
Pitches ==
  [f \in {Estimates[x] : x \in DOMAIN Estimates} |->
     [hz |-> IF f.k = "num" /\ f.d > 0 THEN RoundHz(f) ELSE 0,
      note |-> getNoteInfo(f).note,
      solfege |-> getNoteInfo(f).solfege]]

\* Show with line 149 in force: an estimate out of range puts hz back to 0
ShowOrReset(f, L) ==
  IF Detectable(f)
  THEN [L EXCEPT !.estimate = f, !.detectedPitch = Pitches[f]]
  ELSE [L EXCEPT !.estimate = f, !.detectedPitch.hz = 0]

\* lines 144-150 with the estimate f
Show(f, L) ==
  IF Detectable(f)
  THEN [L EXCEPT !.estimate = f, !.detectedPitch = Pitches[f]]
  ELSE [L EXCEPT !.estimate = f]

\* Detect without the test of the mode
DetectAnyMode(mR, aR, gR, data, rate, L) ==
  IF aR THEN Show(Estimates[data, rate, gR], L) ELSE L

\* lines 141-151, on the samples data
Detect(mR, aR, gR, data, rate, L) ==
  IF mR = "recording" /\ aR THEN Show(Estimates[data, rate, gR], L) ELSE L

\* lines 82-156: draw(), reading the refs
draw(mR, pR, zR, aR, gR, an, data, rate, L) ==
  IF (mR = "playback" /\ ~pR) \/ (mR = "recording" /\ ~aR) THEN L
  ELSE IF ~an THEN L
  ELSE IF ~zR THEN Request(Detect(mR, aR, gR, data, rate, L))
  ELSE Detect(mR, aR, gR, data, rate, L)

\* draw() with the effect that runs it every time, whatever animRef holds
LoopEffectAlwaysDraws(m, p, z, a, g, an, data, rate, L) ==
  IF ((m = "playback" /\ p) \/ (m = "recording" /\ a)) /\ ~z
  THEN draw(m, p, z, a, g, an, data, rate, L)
  ELSE Cancel(L)

\* lines 159-178 after a commit that changed mode, isPlaying, isMicActive or
\* isPaused: the cleanup of the effect before, then the effect; the refs
\* were set by the effects of lines 36-40 just before
LoopEffect(m, p, z, a, g, an, data, rate, L) ==
  IF ((m = "playback" /\ p) \/ (m = "recording" /\ a)) /\ ~z
  THEN IF Cancel(L).animRef = NoFrame
       THEN draw(m, p, z, a, g, an, data, rate, Cancel(L))
       ELSE Cancel(L)
  ELSE Cancel(L)

\* line 322 for every frequency of the model
Labels == [hz \in SliderFrequencies |-> getNoteInfo(Num(hz, 1))]

\* lines 320-327: the frequency, note and solfege shown
getDisplayValues ==
  IF mode = "playback"
  THEN [hz |-> frequency,
        note |-> Labels[frequency].note,
        solfege |-> Labels[frequency].solfege]
  ELSE [hz |-> detectedPitch.hz, note |-> detectedPitch.note,
        solfege |-> detectedPitch.solfege]

callFrame == << fn, pc, work, acVars, noteVars, callVars >>

\* the component is mounted and neither function is being called
InitWave ==
  /\ fn = "none" /\ pc = "idle" /\ work = {}
  /\ buf = << >> /\ sampleRate = 0 /\ gate = 0 /\ freq = Undefined
  /\ FreshLocals
  /\ phase = 1 /\ first = NoCall
  /\ Mounted
  /\ Benches

\* lines 221-227 of stopOscillator: the oscillator held by oscNodeRef is stopped
StoppedNever(node, running) == running

Stopped(node, running) == IF node THEN running - 1 ELSE running

\* lines 263-266 of stopMic: the tracks of the stream held by micStreamRef are
\* stopped
Released(stream, live) == IF stream THEN live - 1 ELSE live

\* the end of an event handler that left the state m, p, z, a, fq, g and the
\* refs osc, an, mic: the commit, the effects of lines 36-40, and the effect
\* of lines 159-178 when one of its dependencies changed
Commit(ev, m, p, z, a, fq, g, osc, an, mic, data, rate, L) ==
  LET after == IF << m, p, z, a >> # << mode, isPlaying, isPaused, isMicActive >>
               THEN LoopEffect(m, p, z, a, g, an, data, rate, L)
               ELSE L
  IN /\ ~after.over
     /\ event' = ev
     /\ mode' = m /\ isPlaying' = p /\ isPaused' = z /\ isMicActive' = a
     /\ frequency' = fq /\ noiseGate' = g
     /\ modeRef' = m /\ isPlayingRef' = p /\ isPausedRef' = z /\ isMicActiveRef' = a
     /\ noiseGateRef' = g
     /\ oscGainRef' = osc /\ analyserRef' = an /\ micStreamRef' = mic
     /\ detectedPitch' = after.detectedPitch
     /\ animRef' = after.animRef
     /\ scheduled' = after.scheduled
     /\ estimate' = after.estimate
     /\ effectsPending' = FALSE

\* lines 63-80: stopOscillator, stopMic, setMode, reset of the detection
handleModeChange(newMode) ==
  /\ ~effectsPending
  /\ \E data \in FrameBuffers, rate \in ContextRates :
       Commit("modeChange", newMode, FALSE, FALSE, FALSE, frequency, noiseGate,
              FALSE, analyserRef, FALSE, data, rate,
              Loop(NoPitchShown, animRef, scheduled, Undefined))
  /\ oscNodeRef' = FALSE /\ oscRunning' = Stopped(oscNodeRef, oscRunning)
  /\ liveStreams' = Released(micStreamRef, liveStreams) /\ micQuiet' = TRUE
  /\ UNCHANGED << callFrame, benchVars, micRequests >>

\* lines 182-218; the button is rendered in playback mode
toggleOscillator ==
  /\ ~effectsPending
  /\ mode = "playback"
  /\ \E data \in FrameBuffers, rate \in ContextRates :
       LET nextPaused == ~isPaused
           before == Loop(detectedPitch, animRef, scheduled, Undefined)
           \* line 192: draw() on resuming, with the refs as they are
           resumed == IF isPlaying /\ ~nextPaused
                      THEN draw(modeRef, isPlayingRef, isPausedRef, isMicActiveRef,
                                noiseGateRef, TRUE, data, rate, before)
                      ELSE before
           \* lines 195-197: stopOscillator() when the oscillator is there
           stops == isPlaying /\ oscGainRef
           ev == IF ~isPlaying THEN "play" ELSE IF stops THEN "stop" ELSE "freeze"
       IN Commit(ev, mode,
                 IF stops THEN FALSE ELSE TRUE,
                 IF isPlaying /\ ~stops THEN nextPaused ELSE FALSE,
                 isMicActive, frequency, noiseGate,
                 IF isPlaying THEN (IF stops THEN FALSE ELSE oscGainRef) ELSE TRUE,
                 TRUE, micStreamRef, data, rate, resumed)
  /\ IF ~isPlaying
     THEN oscNodeRef' = TRUE /\ oscRunning' = oscRunning + 1
     ELSE IF oscGainRef
          THEN oscNodeRef' = FALSE /\ oscRunning' = Stopped(oscNodeRef, oscRunning)
          ELSE UNCHANGED << oscNodeRef, oscRunning >>
  /\ UNCHANGED << callFrame, benchVars, micRequests, liveStreams, micQuiet >>

\* lines 237-260 up to the await, and stopMic of lines 262-273; the button is
\* rendered in recording mode
toggleMic ==
  /\ ~effectsPending
  /\ mode = "recording"
  /\ IF isMicActive
     THEN /\ \E data \in FrameBuffers, rate \in ContextRates :
               Commit("micStop", mode, isPlaying, isPaused, FALSE, frequency, noiseGate,
                      oscGainRef, analyserRef, FALSE, data, rate,
                      Loop(NoPitchShown, animRef, scheduled, Undefined))
          /\ liveStreams' = Released(micStreamRef, liveStreams) /\ micQuiet' = TRUE
          /\ UNCHANGED micRequests
     ELSE /\ micRequests < MaxRequests
          /\ liveStreams < MaxStreams
          /\ micRequests' = micRequests + 1
          /\ micQuiet' = FALSE
          /\ UNCHANGED liveStreams
          /\ analyserRef' = TRUE
          /\ event' = "micAsk"
          /\ estimate' = Undefined
          /\ UNCHANGED << waveState, modeRef, isPlayingRef, isPausedRef, isMicActiveRef,
                          noiseGateRef, oscGainRef, micStreamRef, animRef, scheduled,
                          effectsPending >>
  /\ UNCHANGED << callFrame, benchVars, oscNodeRef, oscRunning >>

\* lines 244-254: getUserMedia answers with a stream; the update is committed
\* and its effects are left to run
micGranted ==
  /\ micRequests > 0
  /\ micRequests' = micRequests - 1
  /\ micStreamRef' = TRUE
  /\ liveStreams' = liveStreams + 1
  /\ isMicActive' = TRUE
  /\ effectsPending' = (effectsPending \/ ~isMicActive)
  /\ event' = "micGranted"
  /\ estimate' = Undefined
  /\ UNCHANGED << mode, isPlaying, isPaused, frequency, noiseGate, detectedPitch,
                  modeRef, isPlayingRef, isPausedRef, isMicActiveRef, noiseGateRef,
                  oscGainRef, analyserRef, animRef, scheduled >>
  /\ UNCHANGED << callFrame, benchVars, oscNodeRef, oscRunning, micQuiet >>

\* lines 255-258: getUserMedia refuses
micRefused ==
  /\ micRequests > 0
  /\ micRequests' = micRequests - 1
  /\ event' = "micRefused"
  /\ estimate' = Undefined
  /\ UNCHANGED << waveState, waveRefs, waveAudio, scheduled, effectsPending >>
  /\ UNCHANGED << callFrame, benchVars >>

\* lines 36-40 and 159-178: the effects of the commit made by micGranted
runEffects ==
  /\ effectsPending
  /\ \E data \in FrameBuffers, rate \in ContextRates :
       LET after == LoopEffect(mode, isPlaying, isPaused, isMicActive, noiseGate,
                               analyserRef, data, rate,
                               Loop(detectedPitch, animRef, scheduled, Undefined))
       IN /\ ~after.over
          /\ detectedPitch' = after.detectedPitch
          /\ animRef' = after.animRef
          /\ scheduled' = after.scheduled
          /\ estimate' = after.estimate
  /\ modeRef' = mode /\ isPlayingRef' = isPlaying /\ isPausedRef' = isPaused
  /\ isMicActiveRef' = isMicActive /\ noiseGateRef' = noiseGate
  /\ effectsPending' = FALSE
  /\ event' = "effects"
  /\ UNCHANGED << mode, isPlaying, isPaused, isMicActive, frequency, noiseGate,
                  oscGainRef, analyserRef, micStreamRef, micRequests >>
  /\ UNCHANGED << callFrame, benchVars, waveAudio >>

\* lines 304-317
reset ==
  /\ ~effectsPending
  /\ \E data \in FrameBuffers, rate \in ContextRates :
       LET playback == mode = "playback"
       IN Commit("reset", mode,
                 IF playback THEN FALSE ELSE isPlaying,
                 IF playback THEN FALSE ELSE isPaused,
                 IF playback THEN isMicActive ELSE FALSE,
                 IF playback THEN DefaultFrequency ELSE frequency,
                 noiseGate,
                 IF playback THEN FALSE ELSE oscGainRef,
                 analyserRef,
                 IF playback THEN micStreamRef ELSE FALSE,
                 data, rate,
                 Loop(IF playback THEN detectedPitch ELSE NoPitchShown,
                      animRef, scheduled, Undefined))
  /\ IF mode = "playback"
     THEN /\ oscNodeRef' = FALSE /\ oscRunning' = Stopped(oscNodeRef, oscRunning)
          /\ UNCHANGED << liveStreams, micQuiet >>
     ELSE /\ liveStreams' = Released(micStreamRef, liveStreams) /\ micQuiet' = TRUE
          /\ UNCHANGED << oscNodeRef, oscRunning >>
  /\ UNCHANGED << callFrame, benchVars, micRequests >>

\* lines 487 and 493: the frequency controls, rendered in playback mode
setFrequency ==
  /\ ~effectsPending
  /\ mode = "playback"
  /\ \E v \in SliderFrequencies, data \in FrameBuffers, rate \in ContextRates :
       Commit("frequency", mode, isPlaying, isPaused, isMicActive, v, noiseGate,
              oscGainRef, analyserRef, micStreamRef, data, rate,
              Loop(detectedPitch, animRef, scheduled, Undefined))
  /\ UNCHANGED << callFrame, benchVars, micRequests, waveAudio >>

\* line 541: the noise gate slider, rendered in recording mode
setNoiseGate ==
  /\ ~effectsPending
  /\ mode = "recording"
  /\ \E v \in SliderGates, data \in FrameBuffers, rate \in ContextRates :
       Commit("noiseGate", mode, isPlaying, isPaused, isMicActive, frequency, v,
              oscGainRef, analyserRef, micStreamRef, data, rate,
              Loop(detectedPitch, animRef, scheduled, Undefined))
  /\ UNCHANGED << callFrame, benchVars, micRequests, waveAudio >>

\* the browser runs a scheduled callback: draw of lines 82-156
frame ==
  /\ \E id \in scheduled, data \in FrameBuffers, rate \in ContextRates :
       LET after == draw(modeRef, isPlayingRef, isPausedRef, isMicActiveRef, noiseGateRef,
                         analyserRef, data, rate,
                         Loop(detectedPitch,
                              IF animRef = id THEN RanFrame ELSE animRef,
                              scheduled \ {id}, Undefined))
       IN /\ ~after.over
          /\ detectedPitch' = after.detectedPitch
          /\ animRef' = after.animRef
          /\ scheduled' = after.scheduled
          /\ estimate' = after.estimate
  /\ event' = "frame"
  /\ UNCHANGED << mode, isPlaying, isPaused, isMicActive, frequency, noiseGate,
                  modeRef, isPlayingRef, isPausedRef, isMicActiveRef, noiseGateRef,
                  oscGainRef, analyserRef, micStreamRef, micRequests, effectsPending >>
  /\ UNCHANGED << callFrame, benchVars, waveAudio >>

NextWave ==
  \/ handleModeChange("playback") \/ handleModeChange("recording")
  \/ toggleOscillator \/ toggleMic \/ micGranted \/ micRefused \/ runEffects
  \/ reset \/ setFrequency \/ setNoiseGate \/ frame

SpecWave == InitWave /\ [][NextWave]_vars

\* ------------------------------------------------------------- properties
\* The functions return what the calls taken statement by statement return.
CallsAgree ==
  /\ (fn = "autoCorrelate" /\ pc = "done") => ret = autoCorrelate(buf, sampleRate, gate)
  /\ (fn = "getNoteInfo" /\ pc = "done") => info = getNoteInfo(freq)

\* The loops taken in one step leave what the loops taken pass by pass leave.
LoopsAgree ==
  /\ (fn = "autoCorrelate" /\ pc = "descent") =>
        c = [j \in DOMAIN c |-> LagSum(b2, j, 0)]
  /\ (fn = "autoCorrelate" /\ pc = "return") =>
        [mx |-> mx, mp |-> mp] = PeakFrom(c, d, Len(b2), [mx |-> -Unit, mp |-> -1])
InAutoCorrelate == fn = "autoCorrelate"
InGetNoteInfo == fn = "getNoteInfo"
Returned == pc = "done"

\* the level of the whole buffer is strictly below the gate
LevelBelowGate == DbBelowGate(SumSq(buf, 0), Len(buf), gate)

\* nothing after the gate has run: no trim index, no working buffer, no lag sum
NoWorkDone ==
  /\ work \subseteq {"rms", "gate"}
  /\ r1 = 0 /\ r2 = 0 /\ b2 = << >> /\ c = NoArray
  /\ d = 0 /\ mx = 0 /\ mp = 0

\* C1: a buffer whose level 20 * log10(rms) + 100 is strictly below the gate
\* makes autoCorrelate return -1 from the gate itself; no edge trimming and
\* no autocorrelation is done on the way.
C1_GateRejectsFirst ==
  (InAutoCorrelate /\ LevelBelowGate) =>
    /\ pc \in {"entry", "gate", "done"}
    /\ NoWorkDone
    /\ (Returned => ret = NoPitch)

\* a buffer that is not silent and still below the gate has been rejected
C1_Witness ==
  /\ InAutoCorrelate /\ Returned
  /\ rms > 0
  /\ LevelBelowGate
  /\ ret = NoPitch

\* C2: every call of autoCorrelate on a buffer of at least one sample with a
\* positive sample rate returns the sentinel -1 or a positive finite
\* frequency; never an infinity, NaN or another negative value.
C2_PitchOrSentinel ==
  (InAutoCorrelate /\ Returned /\ Len(buf) >= 1 /\ sampleRate > 0) =>
    \/ ret = NoPitch
    \/ ret.k = "num" /\ ret.n > 0 /\ ret.d > 0

Silent(s) == Len(s) >= 1 /\ \A j \in 1..Len(s) : s[j] = Center

\* C3: a non-empty buffer of pure silence (every byte 128) makes
\* autoCorrelate return the sentinel, for every gate >= 0 and sample rate.
C3_SilenceIsNoPitch ==
  (InAutoCorrelate /\ Silent(buf) /\ gate >= 0) =>
    /\ pc \in {"entry", "gate", "done"}
    /\ (Returned => ret = NoPitch)

C3_Witness ==
  /\ InAutoCorrelate /\ Returned
  /\ Silent(buf) /\ Len(buf) = MaxLen
  /\ ret = NoPitch

\* the autocorrelation of the claim: c[lag] = sum over j in 0..n-lag-1 of
\* x[j] * x[j + lag], summed from the top index down
RECURSIVE SigmaDown(_, _, _)
SigmaDown(x, lag, j) ==
  IF j < 0 THEN 0
  ELSE Centered(x[j + 1]) * Centered(x[j + lag + 1]) + SigmaDown(x, lag, j - 1)

AutoCorrelation(x) ==
  [lag \in 0..(Len(x) - 1) |-> SigmaDown(x, lag, Len(x) - lag - 1)]

\* the first index at which c[k] > c[k + 1] fails; c has no entry n
FirstStop(cc, len) ==
  CHOOSE k \in 0..(len - 1) :
    /\ (k = len - 1 \/ cc[k] <= cc[k + 1])
    /\ \A j \in 0..(k - 1) : cc[j] > cc[j + 1]

\* the smallest index of [from, n - 1] that holds the maximum of c over it
EarliestMax(cc, from, len) ==
  CHOOSE k \in from..(len - 1) :
    /\ \A j \in from..(len - 1) : cc[j] <= cc[k]
    /\ \A j \in from..(k - 1) : cc[j] < cc[k]

\* r is the quotient a / b of JavaScript
IsQuotient(r, a, b) ==
  IF b = 0 THEN r = JSDiv(a, 0)
  ELSE r.k = "num" /\ r.d > 0 /\ r.n * b = a * r.d

\* C4: on a trimmed buffer of length n >= 1, c is the unnormalised
\* autocorrelation, d the first index at which c[d] > c[d + 1] fails, mp the
\* earliest index of [d, n - 1] holding the maximum of c over [d, n - 1], and
\* the value returned is sampleRate / mp.
C4_DescentThenPeak ==
  (InAutoCorrelate /\ Returned /\ "return" \in work /\ Len(b2) >= 1) =>
    /\ c = AutoCorrelation(b2)
    /\ d = FirstStop(c, Len(b2))
    /\ mp = EarliestMax(c, d, Len(b2))
    /\ IsQuotient(ret, sampleRate, mp)

\* a call that skipped a descent and met the maximum twice in the scanned range
C4_Witness ==
  /\ InAutoCorrelate /\ Returned /\ "return" \in work
  /\ Len(b2) >= 3
  /\ d >= 1
  /\ mp >= d
  /\ \E j \in (mp + 1)..(Len(b2) - 1) : c[j] = c[mp]
  /\ IsQuotient(ret, sampleRate, mp)

\* no sample of the scanned first half, or of the scanned last half, is
\* below the trim threshold
NoFrontCrossing(s) ==
  \A j \in 0..(Len(s) - 1) : 2 * j < Len(s) => ~BelowThreshold(At(s, j))
NoBackCrossing(s) ==
  \A j \in 1..Len(s) : 2 * j < Len(s) => ~BelowThreshold(At(s, Len(s) - j))

\* C5: on a buffer long enough for both scans to examine a sample, without
\* a crossing in the first half the working buffer starts at index 0, and
\* without a crossing in the last half it ends at the full length of the
\* buffer, the last sample included.
C5_TrimFallback ==
  (InAutoCorrelate /\ "slice" \in work /\ Len(buf) >= 3) =>
    /\ (NoFrontCrossing(buf) => r1 = 0)
    /\ (NoBackCrossing(buf) => b2 = SubSeq(buf, r1 + 1, Len(buf)))

\* C6: whenever the trimmed working buffer of a buffer of at least one
\* sample is empty, autoCorrelate returns the sentinel -1, as it does below
\* the gate.
C6_EmptyTrimIsNoPitch ==
  (InAutoCorrelate /\ Returned /\ Len(buf) >= 1 /\ "slice" \in work /\ Len(b2) = 0) =>
    ret = NoPitch

\* c is strictly decreasing over every lag of the trimmed buffer
StrictlyDecreasing(cc, len) == \A k \in 0..(len - 2) : cc[k] > cc[k + 1]

\* C7: when the descent loop runs to the end of c (c strictly decreasing
\* over all lags of a trimmed buffer of two or more samples), autoCorrelate
\* returns the sentinel and not a frequency.
C7_DescentOverrunIsNoPitch ==
  (InAutoCorrelate /\ Returned /\ "return" \in work
     /\ Len(b2) >= 2 /\ StrictlyDecreasing(c, Len(b2))) =>
    ret = NoPitch

\* the input is a finite number of at least 20 Hz
FiniteAudible(f) == f.k = "num" /\ f.d > 0 /\ f.n >= MinHz * f.d
\* the input is absent, zero, negative or strictly below 20 Hz
AbsentOrSubAudible(f) == f.k = "undef" \/ (f.k = "num" /\ f.d > 0 /\ f.n < MinHz * f.d)

\* C8: getNoteInfo returns the sentinel { '--', '--', 0 } for every input
\* that is absent, zero, negative or below 20 Hz, and a result other than
\* the sentinel for every finite input of 20 Hz or more.
C8_SentinelBelowTwenty ==
  (InGetNoteInfo /\ Returned) =>
    /\ (AbsentOrSubAudible(freq) => info = Sentinel)
    /\ (FiniteAudible(freq) => info # Sentinel /\ info.note # "--" /\ info.solfege # "--")

\* exactly 20 Hz is mapped to a note
C8_Witness ==
  /\ InGetNoteInfo /\ Returned
  /\ freq = Num(100 * MinHz, 100)
  /\ info # Sentinel
  /\ "build" \in work

\* C9 as stated: for every frequency of 20 Hz or more the cents value is
\* strictly greater than -50 and at most +50.
C9_CentsRange ==
  (InGetNoteInfo /\ Returned /\ FiniteAudible(freq)) =>
    /\ info.cents.k = "num"
    /\ -50 * info.cents.d < info.cents.n
    /\ info.cents.n <= 50 * info.cents.d

\* C9 amended: for every frequency of 20 Hz or more the cents value is at
\* least -50 and strictly less than +50 (Math.round rounds a half up, so
\* diff = n - round(n) lies in [-0.5, 0.5)).
C9_CentsRangeAmended ==
  (InGetNoteInfo /\ Returned /\ FiniteAudible(freq)) =>
    /\ info.cents.k = "num"
    /\ -50 * info.cents.d <= info.cents.n
    /\ info.cents.n < 50 * info.cents.d

\* a semitone number that ends in .5 has been rounded up: cents is -50
C9_Witness ==
  /\ InGetNoteInfo /\ Returned /\ FiniteAudible(freq)
  /\ n.k = "num" /\ 2 * (n.n % One) = One
  /\ midi.n * One = n.n + One \div 2
  /\ info.cents.n = -50 * info.cents.d

\* C10: a result other than the sentinel carries the letter and the solfege
\* name of pitch class midi mod 12, from the same index of the two tables,
\* and the octave floor(midi / 12) - 1 appended to the letter; 440 Hz gives
\* midi 69, note A4, solfege La and 0 cents.
C10_NoteLabel ==
  (InGetNoteInfo /\ Returned /\ FiniteAudible(freq)) =>
    /\ midi.k = "num"
    /\ \E o \in -2..12 :
         /\ 12 * (o + 1) <= midi.n /\ midi.n < 12 * (o + 2)
         /\ info.note = noteNames[midi.n - 12 * (o + 1) + 1] \o ToString(o)
         /\ info.solfege = solfegeNames[midi.n - 12 * (o + 1) + 1]
    /\ (freq.n = A4Hz * freq.d =>
          /\ midi.n = A4Midi
          /\ info.note = "A4" /\ info.solfege = "La"
          /\ info.cents.k = "num" /\ info.cents.n = 0)

C10_Witness ==
  /\ InGetNoteInfo /\ Returned
  /\ freq = Num(100 * A4Hz, 100)
  /\ info.note = "A4" /\ info.solfege = "La" /\ info.cents.n = 0

Range(s) == {s[j] : j \in DOMAIN s}

\* C11: for every finite frequency of 20 Hz or more the pitch-class index
\* midi % 12 that getNoteInfo computes is an integer of 0..11, never
\* negative, so the letter and the solfege name are entries of the two
\* 12-element tables and never an undefined entry.
C11_PitchClassInTable ==
  (InGetNoteInfo /\ Returned /\ FiniteAudible(freq)) =>
    /\ midi.k = "num"
    /\ JSRem(midi.n, 12) \in 0..11
    /\ info.solfege \in Range(solfegeNames)
    /\ \E l \in Range(noteNames), o \in -2..12 : info.note = l \o ToString(o)

\* the lowest audible input, 20 Hz, is D#0: midi 15, index 3
C11_Witness ==
  /\ InGetNoteInfo /\ Returned
  /\ freq = Num(100 * MinHz, 100)
  /\ midi = Num(15, 1)
  /\ JSRem(midi.n, 12) = 3
  /\ info.note = "D#0" /\ info.solfege = "Ri"

\* C13: for every non-finite input (NaN, +Infinity, -Infinity) getNoteInfo
\* returns the sentinel { '--', '--', 0 } and not a result that holds NaN or
\* an undefined label.
C13_NonFiniteIsSentinel ==
  (InGetNoteInfo /\ Returned /\ freq.k \in {"nan", "inf", "-inf"}) =>
    info = Sentinel

\* C14: autoCorrelate called with a zero-length buffer or a negative sample
\* rate signals an error: it does not run through to line 67 and return the
\* number sampleRate / mp.
C14_MalformedInputSignalled ==
  (InAutoCorrelate /\ Returned /\ (Len(buf) = 0 \/ sampleRate < 0)) =>
    /\ "return" \notin work
    /\ ret.k \notin {"num", "inf", "-inf", "nan"}

\* a second getNoteInfo call has returned after a first one, neither result
\* the sentinel, both with a finite rounded semitone number
BothMapped ==
  /\ phase = 2 /\ InGetNoteInfo /\ Returned
  /\ first.fn = "getNoteInfo"
  /\ info # Sentinel /\ first.info # Sentinel
  /\ midi.k = "num" /\ first.midi.k = "num"

\* the note of hi is the note letter of lo with the octave number one greater
OctaveAbove(lo, hi) ==
  /\ hi.solfege = lo.solfege
  /\ \E l \in Range(noteNames), o \in -2..12 :
        /\ lo.note = l \o ToString(o)
        /\ hi.note = l \o ToString(o + 1)

\* C12: for two non-sentinel getNoteInfo results whose rounded semitone
\* numbers differ by exactly 12, the higher one has the same note letter and
\* the same solfege label, and an octave number exactly one greater.
C12_OctaveStep ==
  BothMapped =>
    /\ (midi.n = first.midi.n + 12 => OctaveAbove(first.info, info))
    /\ (first.midi.n = midi.n + 12 => OctaveAbove(info, first.info))

\* 32 Hz is C1 (semitone 24, from below C) and 66 Hz is C2 (semitone 36, from
\* above C)
C12_Witness ==
  /\ BothMapped
  /\ first.midi = Num(24, 1) /\ midi = Num(36, 1)
  /\ first.freq = Num(3200, 100) /\ freq = Num(6600, 100)
  /\ first.info.note = "C1" /\ info.note = "C2"
  /\ info.solfege = "Do" /\ first.info.solfege = "Do"

\* the repetition of the first autoCorrelate call has returned
Repeated ==
  /\ phase = 3 /\ InAutoCorrelate /\ Returned
  /\ buf = first.buf /\ sampleRate = first.sampleRate /\ gate = first.gate

\* C15: autoCorrelate called again on the same buffer with the same sample
\* rate and gate, whatever calls of autoCorrelate or getNoteInfo were made in
\* between, returns the same result through the same exit, and when it gets
\* to the peak search it finds the same peak lag.
C15_NoHiddenState ==
  Repeated =>
    /\ ret = first.ret
    /\ ("return" \in work) = first.lag
    /\ (first.lag => mp = first.mp)

\* a repetition, after another call, that finds again a peak at a positive lag
C15_Witness ==
  /\ Repeated
  /\ first.mid
  /\ first.lag /\ "return" \in work
  /\ mp >= 1 /\ mp = first.mp
  /\ ret.k = "num" /\ ret = first.ret

\* the indices of the first half and of the last half of s whose sample is
\* below the threshold
QuietFront(s) == {j \in 0..(Len(s) - 1) : 2 * j < Len(s) /\ BelowThreshold(At(s, j))}
QuietBack(s) == {j \in 0..(Len(s) - 1) : 2 * j >= Len(s) /\ BelowThreshold(At(s, j))}
Least(S) == CHOOSE x \in S : \A y \in S : x <= y
Greatest(S) == CHOOSE x \in S : \A y \in S : x >= y

\* both scans of lines 44-45 meet a sample below the threshold
BothScansFind ==
  /\ ~NoFrontCrossing(buf)
  /\ ~NoBackCrossing(buf)

WithinPercent(x, hz, pct) ==
  /\ x.k = "num" /\ x.d > 0
  /\ 100 * Abs(x.n - hz * x.d) <= pct * hz * x.d

\* C19: on a 2048-sample window of an A4Hz sine sampled at 44100 Hz into
\* 8-bit samples centered at 128, with a gate the window passes, autoCorrelate
\* returns a frequency within 2% of A4Hz.
C19_SineWithinTolerance ==
  (InAutoCorrelate /\ Returned /\ buf \in SineBuffers /\ sampleRate = 44100
     /\ ~LevelBelowGate) =>
    /\ "return" \in work
    /\ WithinPercent(ret, A4Hz, 2)

\* the descent stops at half a period, lag 50, and the peak is at lag 100:
\* 44100 / 100 = 441 Hz
C19_Witness ==
  /\ InAutoCorrelate /\ Returned /\ Len(buf) = SineLen /\ buf \in SineBuffers
  /\ gate = 30 /\ ~LevelBelowGate
  /\ r1 > 0 /\ d = 50 /\ mp = 100
  /\ ret = JSDiv(44100, 100)

\* the descent loop of line 58 has been left
DescentLeft == InAutoCorrelate /\ "descent" \in work /\ pc \in {"peak", "return", "done"}

\* C21: on a trimmed buffer of length n >= 1 the descent loop is left with
\* 0 <= d <= n - 1, also when c is strictly decreasing over all lags, and
\* every call of autoCorrelate returns.
C21_DescentBoundedAndReturns ==
  /\ []((DescentLeft /\ Len(b2) >= 1) => (0 <= d /\ d <= Len(b2) - 1))
  /\ (InAutoCorrelate => <>Returned)

\* a call returned whose c is strictly decreasing over three lags: the loop
\* stopped at the last lag
C21_Witness ==
  /\ InAutoCorrelate /\ Returned /\ "descent" \in work
  /\ Len(b2) = 3
  /\ StrictlyDecreasing(c, Len(b2))
  /\ d = Len(b2) - 1

\* the peak search of lines 60-65 has been left
PeakLeft == InAutoCorrelate /\ "peak" \in work /\ pc \in {"return", "done"}

\* C27: on a trimmed buffer of length n >= 1 the peak search assigns the peak
\* lag, d <= mp <= n - 1 and never -1: the running maximum starts at -1, which
\* is below c[n - 1].
C27_PeakAssigned ==
  (PeakLeft /\ Len(b2) >= 1) =>
    /\ -Unit < c[Len(b2) - 1]
    /\ mp # -1
    /\ d <= mp /\ mp <= Len(b2) - 1

\* the only lag searched holds the lowest product of two samples, -128 * 127
C27_Witness ==
  /\ PeakLeft
  /\ Len(b2) = 2 /\ d = 1
  /\ c[1] = (0 - Center) * (255 - Center)
  /\ mx = c[1] /\ mp = 1

\* C28: on a buffer of length >= 2 the trim indices satisfy
\* 0 <= r1 < r2 <= length - 1 and the trimmed buffer holds at least one
\* sample; it is empty only for buffers of length 0 or 1.
C28_TrimKeepsASample ==
  (InAutoCorrelate /\ "slice" \in work) =>
    /\ (Len(buf) >= 2 => (0 <= r1 /\ r1 < r2 /\ r2 <= Len(buf) - 1 /\ Len(b2) >= 1))
    /\ (Len(b2) = 0 => Len(buf) \in {0, 1})

\* both scans found a sample on a buffer of four, next to the middle
C28_Witness ==
  /\ InAutoCorrelate /\ "slice" \in work
  /\ Len(buf) = 4
  /\ r1 = 1 /\ r2 = 3
  /\ Len(b2) = 2

\* ------------------------------------------------- WaveExperiment, properties
\* The refs hold the committed state unless effects are left to run, the
\* oscillator is there while playing, and playback is never frozen.
WaveSane ==
  /\ (~effectsPending =>
        << modeRef, isPlayingRef, isPausedRef, isMicActiveRef, noiseGateRef >>
          = << mode, isPlaying, isPaused, isMicActive, noiseGate >>)
  /\ modeRef = mode
  /\ (isPlaying => oscGainRef)
  /\ ~isPaused
  /\ scheduled \subseteq {animRef}

\* this step is a callback of requestAnimationFrame running draw
FrameStep == event' = "frame" /\ scheduled # {}

\* the pitch that lines 145-146 show for the estimate f
PitchOf(f) ==
  [hz |-> RoundHz(f), note |-> getNoteInfo(f).note, solfege |-> getNoteInfo(f).solfege]

\* C16: in recording mode with the microphone active, an animation frame makes
\* an estimate, shows it when it lies strictly between 50 and 5000 Hz, and for
\* every other estimate, the sentinel -1 among them, leaves detectedPitch
\* exactly as it was.
C16_FrameKeepsLastPitch ==
  [][(FrameStep /\ mode = "recording" /\ isMicActive) =>
       /\ estimate' # Undefined
       /\ (Detectable(estimate') => detectedPitch' = PitchOf(estimate'))
       /\ (~Detectable(estimate') => detectedPitch' = detectedPitch)]_vars

\* a frame that met silence after a frame that showed 4000 Hz
C16_Witness ==
  /\ event = "frame" /\ mode = "recording" /\ isMicActive
  /\ estimate = NoPitch
  /\ detectedPitch.hz = 4000 /\ detectedPitch.note # "--"

\* C17: whatever the events, at most one draw callback is scheduled with
\* requestAnimationFrame, and it is the one animRef holds.
C17_OneFramePending ==
  /\ Cardinality(scheduled) <= 1
  /\ scheduled \subseteq {animRef}

\* the loop runs in playback after the microphone, asked for in recording
\* mode, was granted late
C17_Witness ==
  /\ mode = "playback" /\ isPlaying /\ isMicActive /\ ~effectsPending
  /\ Cardinality(scheduled) = 1
  /\ animRef \in scheduled

\* C18: while mode is 'playback' no animation frame makes an estimate or
\* changes detectedPitch, and the note and solfege shown are those of
\* getNoteInfo of the frequency the user selected.
C18_PlaybackShowsSelected ==
  /\ [](mode = "playback" =>
          /\ getDisplayValues.hz = frequency
          /\ getDisplayValues.note = getNoteInfo(Num(frequency, 1)).note
          /\ getDisplayValues.solfege = getNoteInfo(Num(frequency, 1)).solfege)
  /\ [][(FrameStep /\ mode = "playback") =>
          /\ estimate' = Undefined
          /\ detectedPitch' = detectedPitch]_vars

\* a frame in playback mode with the microphone live and 5000 Hz selected
C18_Witness ==
  /\ event = "frame" /\ mode = "playback" /\ isPlaying
  /\ isMicActive /\ isMicActiveRef
  /\ estimate = Undefined /\ detectedPitch = NoPitchShown
  /\ frequency = 5000
  /\ getDisplayValues.note = "D#8"

\* ------------------------------------------------- WaveExperiment: audio
\* C24: however the presses of toggleMic, the runs of stopMic and the answers
\* of getUserMedia interleave, at most one acquired stream has unstopped
\* tracks, and once stopMic has run and every request made before it is
\* answered, with no request made since, no acquired stream has unstopped
\* tracks.
C24_OneLiveStream ==
  /\ liveStreams <= 1
  /\ (micQuiet /\ micRequests = 0) => liveStreams = 0

\* C25: in every reachable state whose mode is playback the microphone is not
\* active and no stream is held, also when handleModeChange runs while a
\* getUserMedia request made in recording mode is not yet answered.
C25_PlaybackHasNoMic ==
  mode = "playback" => (~isMicActive /\ ~micStreamRef)

\* C29: after every handler isPlaying is true exactly when oscNodeRef and
\* oscGainRef hold the oscillator started and its gain, and no oscillator
\* runs while isPlaying is false: exactly one runs while it is true.
C29_PlayingIffOscillatorHeld ==
  /\ isPlaying <=> (oscNodeRef /\ oscGainRef)
  /\ oscNodeRef <=> oscGainRef
  /\ oscRunning = IF isPlaying THEN 1 ELSE 0

\* the oscillator was started and toggleOscillator has stopped it
C29_Witness ==
  /\ event = "stop" /\ ~isPlaying /\ ~oscNodeRef /\ ~oscGainRef /\ oscRunning = 0

\* ---------------------------------------------------- RecorderExperiment
\* The recorder of components/RecorderExperiment.tsx: eight holes, a blow
\* button, one oscillator per blow.  A stopping press schedules the stop of
\* the oscillator 100 ms ahead and a timer that clears the refs after 100 ms;
\* presses and timers interleave freely.  An oscillator is "sounding" from
\* its start until a stop is scheduled for it, "stopping" from then on.
\* oscillators a behaviour starts
MaxOscillators == 3
\* cleanup timers waiting at one time
MaxCleanups == 2

\* line 31
freqs == << 1174, 1046, 987, 880, 783, 698, 659, 587, 523 >>

RECURSIVE FirstOpen(_, _)
\* lines 19-25: the first hole that is not covered, 8 when all are
FirstOpen(hs, h) ==
  IF h = 8 THEN 8 ELSE IF ~hs[h] THEN h ELSE FirstOpen(hs, h + 1)

\* lines 18-33
calculatePitch(hs) == freqs[FirstOpen(hs, 0) + 1]

RecorderLabels == [hz \in {freqs[k] : k \in 1..9} |-> getNoteInfo(Num(hz, 1))]

\* lines 37-39 and 88-90: the pitch shown for the holes hs
Sounded(hs) ==
  [hz |-> calculatePitch(hs),
   note |-> RecorderLabels[calculatePitch(hs)].note,
   solfege |-> RecorderLabels[calculatePitch(hs)].solfege]

recorderFrame == << fn, pc, work, acVars, noteVars, callVars, waveVars, violinVars,
                   metroVars >>

InitRecorder ==
  /\ fn = "none" /\ pc = "idle" /\ work = {}
  /\ buf = << >> /\ sampleRate = 0 /\ gate = 0 /\ freq = Undefined
  /\ FreshLocals
  /\ phase = 1 /\ first = NoCall
  /\ Mounted
  /\ Benches

\* lines 12-16, and updateAudio of lines 35-44 run by the effect of lines 46-48
toggleHole(index) ==
  /\ holes' = [holes EXCEPT ![index] = ~@]
  /\ pitch' = IF isBlowing THEN Sounded(holes') ELSE pitch
  /\ UNCHANGED << isBlowing, oscRef, gainRef, oscillators, cleanups >>
  /\ UNCHANGED recorderFrame

\* lines 50-94, and the effect of lines 46-48 after the commit
toggleBlow ==
  /\ IF isBlowing
     THEN /\ cleanups < MaxCleanups
          /\ oscillators' = IF oscRef # NoNode
                            THEN [oscillators EXCEPT ![oscRef] = "stopping"]
                            ELSE oscillators
          /\ cleanups' = cleanups + 1
          /\ isBlowing' = FALSE
          /\ pitch' = NoPitchShown
          /\ UNCHANGED << oscRef, gainRef >>
     ELSE /\ Len(oscillators) < MaxOscillators
          /\ oscillators' = Append(oscillators, "sounding")
          /\ oscRef' = Len(oscillators) + 1
          /\ gainRef' = Len(oscillators) + 1
          /\ isBlowing' = TRUE
          /\ pitch' = Sounded(holes)
          /\ UNCHANGED cleanups
  /\ UNCHANGED holes
  /\ UNCHANGED recorderFrame

\* lines 60-63: a cleanup timer fires
cleanup ==
  /\ cleanups > 0
  /\ cleanups' = cleanups - 1
  /\ oscRef' = NoNode /\ gainRef' = NoNode
  /\ UNCHANGED << holes, isBlowing, pitch, oscillators >>
  /\ UNCHANGED recorderFrame

NextRecorder ==
  \/ \E index \in 0..7 : toggleHole(index)
  \/ toggleBlow
  \/ cleanup

SpecRecorder == InitRecorder /\ [][NextRecorder]_vars

\* an oscillator that was started and has no stop scheduled
Unstopped == {o \in 1..Len(oscillators) : oscillators[o] = "sounding"}

\* C22: however the presses of toggleBlow and the cleanup timers interleave,
\* whenever isBlowing is false and no cleanup timer is waiting every
\* oscillator started has a stop scheduled, and whenever isBlowing is true
\* oscRef holds the one oscillator that sounds.
C22_BlowOwnsItsOscillator ==
  /\ (~isBlowing /\ cleanups = 0) => Unstopped = {}
  /\ isBlowing => (oscRef # NoNode /\ Unstopped = {oscRef})

\* ------------------------------------------------------ ViolinExperiment
\* The violin of components/ViolinExperiment.tsx: pressing the mouse on the
\* canvas plays the closest string with a pair of oscillators, releasing it or
\* leaving the canvas runs stopNote, which schedules their stop 100 ms ahead
\* and a timer that clears the refs after 100 ms.  A voice is the pair started
\* by one playNote; each of its oscillators is "sounding" until a stop is
\* scheduled for it.
\* pairs of oscillators a behaviour starts
MaxVoices == 3
\* cleanup timers of stopNote waiting at one time
MaxStopTimers == 2

\* lines 5-10: the base frequencies of G3, D4, A4, E5 in tenths of a Hz
stdViolin == << 1960, 2937, 4400, 6593 >>
\* the height of the canvas (line 161) and the heights of the pointer in it
CanvasHeight == 400
FingerYs == {0, CanvasHeight \div 2}

\* lines 26-39 with the tension of every string at 50: base * 1 * lf
getViolinFreq(idx, yPos) ==
  IF yPos # -1
  THEN Num(stdViolin[idx + 1] * 3 * CanvasHeight, 10 * (3 * CanvasHeight - 2 * yPos))
  ELSE Num(stdViolin[idx + 1], 10)

\* lines 43-45 for every string and height of the model
ViolinLabels ==
  [idx \in 0..3, y \in FingerYs \cup {-1} |->
     [hz |-> RoundHz(getViolinFreq(idx, y)),
      note |-> getNoteInfo(getViolinFreq(idx, y)).note,
      solfege |-> getNoteInfo(getViolinFreq(idx, y)).solfege]]

violinFrame == << fn, pc, work, acVars, noteVars, callVars, waveVars, recorderVars,
                 metroVars >>

InitViolin ==
  /\ fn = "none" /\ pc = "idle" /\ work = {}
  /\ buf = << >> /\ sampleRate = 0 /\ gate = 0 /\ freq = Undefined
  /\ FreshLocals
  /\ phase = 1 /\ first = NoCall
  /\ Mounted
  /\ Benches

\* lines 116-141 with playNote of lines 58-94, and updateFrequency of lines
\* 41-52 run by the effect of lines 54-56; idx is the closest string
handleMouseDown(idx, y) ==
  /\ activeStringIdx' = idx
  /\ fingerY' = y
  /\ IF vOsc1Ref # NoNode
     THEN UNCHANGED << vOsc1Ref, vOsc2Ref, vGainRef, voices >>
     ELSE /\ Len(voices) < MaxVoices
          /\ voices' = Append(voices, [osc1 |-> "sounding", osc2 |-> "sounding"])
          /\ vOsc1Ref' = Len(voices) + 1
          /\ vOsc2Ref' = Len(voices) + 1
          /\ vGainRef' = Len(voices) + 1
  /\ violinPitch' = ViolinLabels[idx, y]
  /\ UNCHANGED stopTimers
  /\ UNCHANGED violinFrame

\* lines 143-148, and updateFrequency run by the effect
handleMouseMove(y) ==
  /\ activeStringIdx # -1
  /\ fingerY' = y
  /\ violinPitch' = ViolinLabels[activeStringIdx, y]
  /\ UNCHANGED << activeStringIdx, vOsc1Ref, vOsc2Ref, vGainRef, voices, stopTimers >>
  /\ UNCHANGED violinFrame

\* lines 96-113, on mouseup and on mouseleave
stopNote ==
  /\ IF vOsc1Ref # NoNode /\ vGainRef # NoNode
     THEN /\ stopTimers < MaxStopTimers
          /\ voices' = [v \in 1..Len(voices) |->
                          [osc1 |-> IF v = vOsc1Ref THEN "stopping" ELSE voices[v].osc1,
                           osc2 |-> IF v = vOsc2Ref THEN "stopping" ELSE voices[v].osc2]]
          /\ stopTimers' = stopTimers + 1
     ELSE UNCHANGED << voices, stopTimers >>
  /\ activeStringIdx' = -1
  /\ fingerY' = -1
  /\ UNCHANGED << violinPitch, vOsc1Ref, vOsc2Ref, vGainRef >>
  /\ UNCHANGED violinFrame

\* lines 105-109: a cleanup timer of stopNote fires
stopCleanup ==
  /\ stopTimers > 0
  /\ stopTimers' = stopTimers - 1
  /\ vOsc1Ref' = NoNode /\ vOsc2Ref' = NoNode /\ vGainRef' = NoNode
  /\ UNCHANGED << activeStringIdx, fingerY, violinPitch, voices >>
  /\ UNCHANGED violinFrame

NextViolin ==
  \/ \E idx \in 0..3, y \in FingerYs : handleMouseDown(idx, y)
  \/ \E y \in FingerYs : handleMouseMove(y)
  \/ stopNote
  \/ stopCleanup

SpecViolin == InitViolin /\ [][NextViolin]_vars

\* the voices with an oscillator that has no stop scheduled
Ringing ==
  {v \in 1..Len(voices) : voices[v].osc1 = "sounding" \/ voices[v].osc2 = "sounding"}

\* C23: however the mouse events and the cleanup timers of stopNote
\* interleave, whenever no string is active and no cleanup timer is waiting,
\* no oscillator started by playNote runs without a scheduled stop.
C23_SilentWhenReleased ==
  (activeStringIdx = -1 /\ stopTimers = 0) => Ringing = {}

\* --------------------------------------------------- MetronomeExperiment
\* The metronome of WaveExperiment.tsx lines 577-714.  Times are in
\* milliseconds.  togglePlay registers scheduler with setInterval; the
\* function registered is the one of the render in which the button was
\* pressed, and it reads bpm and beatsPerBar of that render: an interval
\* timer is kept with the values its scheduler closes over.  The clock of the
\* audio context advances in steps of the interval; a callback of a
\* registered timer may run at any of them.
\* steps of the clock in a behaviour
MaxTicks == 13
\* visual updates waiting at one time
MaxFlashes == 2

\* line 648: the period of the interval timer
IntervalMs == 25
\* line 630: the lookahead of the scheduler
LookaheadMs == 100
\* line 622: 60.0 / bpm seconds
MsPerMinute == 60000
\* two positions of the slider of lines 679-682, two of the buttons of line 690
BpmChoices == {DefaultBpm, 160}
BarChoices == {4, 3}

metroFrame == << fn, pc, work, acVars, noteVars, callVars, waveVars, recorderVars,
                violinVars >>

InitMetronome ==
  /\ fn = "none" /\ pc = "idle" /\ work = {}
  /\ buf = << >> /\ sampleRate = 0 /\ gate = 0 /\ freq = Undefined
  /\ FreshLocals
  /\ phase = 1 /\ first = NoCall
  /\ Mounted
  /\ Benches

\* what window.setInterval answers: an id no registered timer has
NewTimer(ts) ==
  CHOOSE id \in 1..(Cardinality(ts) + 1) : \A t \in ts : t.id # id

\* line 639: window.clearInterval(id) without effect
ClearedNone(ts, id) == ts

\* line 639: window.clearInterval(id)
Cleared(ts, id) == {t \in ts : t.id # id}

\* what the scheduler works on: the two refs, the visual updates waiting and
\* the beats scheduled
Schedule(next, beat, fl, last, sp) ==
  [next |-> next, beat |-> beat, flashes |-> fl, lastNote |-> last, spacing |-> sp]

\* lines 591-619: scheduleNote(beatRef.current, nextNoteTimeRef.current); the
\* beat is recorded with the bpm selected now
scheduleNote(S) ==
  [S EXCEPT !.flashes = Append(@, [beat |-> S.beat, due |-> S.next]),
            !.lastNote = [time |-> S.next, bpm |-> bpm],
            !.spacing = IF S.lastNote = NoNote THEN @
                        ELSE [ms |-> S.next - S.lastNote.time, bpm |-> bpm,
                              before |-> S.lastNote.bpm]]

\* lines 621-625 in the scheduler registered as the timer t
nextNote(t, S) ==
  [S EXCEPT !.next = @ + (MsPerMinute \div t.bpm),
            !.beat = (@ + 1) % t.beatsPerBar]

RECURSIVE Scheduled(_, _)
\* lines 627-634: the loop of the scheduler registered as the timer t
Scheduled(t, S) ==
  IF S.next < currentTime + LookaheadMs
  THEN Scheduled(t, nextNote(t, scheduleNote(S)))
  ELSE S

\* lines 636-651
togglePlay ==
  /\ IF metroPlaying
     THEN /\ IF timerIDRef # NoTimer
             THEN intervals' = Cleared(intervals, timerIDRef) /\ timerIDRef' = NoTimer
             ELSE UNCHANGED << intervals, timerIDRef >>
          /\ metroPlaying' = FALSE
          /\ UNCHANGED << nextNoteTimeRef, beatRef, lastNote, spacing >>
     ELSE /\ nextNoteTimeRef' = currentTime
          /\ beatRef' = 0
          /\ intervals' = intervals \cup {[id |-> NewTimer(intervals), bpm |-> bpm,
                                          beatsPerBar |-> beatsPerBar]}
          /\ timerIDRef' = NewTimer(intervals)
          /\ metroPlaying' = TRUE
          /\ lastNote' = NoNote /\ spacing' = NoSpacing
  /\ UNCHANGED << bpm, beatsPerBar, currentBeat, currentTime, flashes >>
  /\ UNCHANGED metroFrame

\* line 681: the slider
setBpm(v) ==
  /\ bpm' = v
  /\ UNCHANGED << metroPlaying, beatsPerBar, currentBeat, nextNoteTimeRef, timerIDRef,
                  beatRef, intervals, currentTime, flashes, lastNote, spacing >>
  /\ UNCHANGED metroFrame

\* line 693: a time signature button
setBeatsPerBar(k) ==
  /\ beatsPerBar' = k
  /\ beatRef' = 0
  /\ UNCHANGED << metroPlaying, bpm, currentBeat, nextNoteTimeRef, timerIDRef,
                  intervals, currentTime, flashes, lastNote, spacing >>
  /\ UNCHANGED metroFrame

\* the clock of the audio context advances by one interval
elapse ==
  /\ currentTime < MaxTicks * IntervalMs
  /\ currentTime' = currentTime + IntervalMs
  /\ UNCHANGED << metroPlaying, bpm, beatsPerBar, currentBeat, nextNoteTimeRef,
                  timerIDRef, beatRef, intervals, flashes, lastNote, spacing >>
  /\ UNCHANGED metroFrame

\* lines 627-634: the callback of a registered interval timer runs
scheduler ==
  /\ \E t \in intervals :
       LET S == Scheduled(t, Schedule(nextNoteTimeRef, beatRef, flashes, lastNote, spacing))
       IN /\ Len(S.flashes) <= MaxFlashes
          /\ nextNoteTimeRef' = S.next
          /\ beatRef' = S.beat
          /\ flashes' = S.flashes
          /\ lastNote' = S.lastNote
          /\ spacing' = S.spacing
  /\ UNCHANGED << metroPlaying, bpm, beatsPerBar, currentBeat, timerIDRef, intervals,
                  currentTime >>
  /\ UNCHANGED metroFrame

\* lines 610-618: the timeout of a scheduled beat fires, not before its time
flash ==
  /\ flashes # << >>
  /\ Head(flashes).due <= currentTime
  /\ currentBeat' = Head(flashes).beat
  /\ flashes' = Tail(flashes)
  /\ UNCHANGED << metroPlaying, bpm, beatsPerBar, nextNoteTimeRef, timerIDRef, beatRef,
                  intervals, currentTime, lastNote, spacing >>
  /\ UNCHANGED metroFrame

NextMetronome ==
  \/ togglePlay
  \/ \E v \in BpmChoices : setBpm(v)
  \/ \E k \in BarChoices : setBeatsPerBar(k)
  \/ elapse
  \/ scheduler
  \/ flash

SpecMetronome == InitMetronome /\ [][NextMetronome]_vars

\* C26: while the metronome runs, each beat the scheduler schedules lies
\* 60 / bpm seconds after the beat before it, bpm being the value selected
\* when the beat is scheduled (or, at a change between the two, when the beat
\* before it was).
C26_BeatSpacingFollowsBpm ==
  spacing # NoSpacing =>
    \/ spacing.ms * spacing.bpm = MsPerMinute
    \/ spacing.ms * spacing.before = MsPerMinute

\* a step that schedules a beat
NoteScheduled == lastNote' # lastNote /\ lastNote' # NoNote

\* C30: isPlaying is true exactly when timerIDRef holds a timer, the timers
\* registered are that one and no other, and from a state in which the
\* metronome is stopped no step schedules a beat.
C30_OneTimerWhilePlaying ==
  /\ [](/\ metroPlaying <=> timerIDRef # NoTimer
        /\ Cardinality(intervals) <= 1
        /\ {t.id : t \in intervals} = {timerIDRef} \ {NoTimer})
  /\ [][~metroPlaying => ~NoteScheduled]_vars

\* the metronome was started, scheduled a beat and has been stopped
C30_Witness ==
  /\ ~metroPlaying /\ timerIDRef = NoTimer /\ intervals = {}
  /\ lastNote # NoNote /\ currentTime > lastNote.time
====
